---- MODULE Spec2Model ----
(***************************************************************************)
(* Verification model of the Atla Insights JavaScript SDK:                 *)
(*   - metadata validation and the metadata write paths (src/metadata.ts,  *)
(*     src/main.ts, src/atla_root_span_processor.ts);                      *)
(*   - context propagation, the instrumentation wrapper, manual spans,     *)
(*     experiments and root-span marking (context.ts, instrumentation.ts,  *)
(*     span.ts, experiments.ts, marking.ts).                               *)
(* The specifications share the module's variables: SpecMeta drives the    *)
(* metadata functions over a family of inputs; Spec, SpecMark, SpecDetach, *)
(* SpecScope and SpecCtx drive call chains on the single JavaScript        *)
(* thread, each with the operations its properties are about.              *)
(***************************************************************************)
EXTENDS Integers, Sequences, FiniteSets, TLC

VARIABLES
    \* ---- metadata write paths (SpecMeta) ----
    mInput,        \* the object the caller passes as metadata
    mPhase,        \* position of the metadata scenario
    globalMetadata,\* metadata.ts: let globalMetadata
    procMetadata,  \* AtlaRootSpanProcessor.metadata (constructor argument)
    mConfigured,   \* AtlaInsights.configured
    mScoped,       \* value under METADATA_CONTEXT_KEY in the active context
    mSpan,         \* the active span of the scenario: attribute writes
    mRet,          \* result of the last validateMetadata call
    \* ---- call chains ----
    active,        \* the store of the context manager: otelContext.active()
    cur,           \* the chain that owns the JavaScript thread, 0 = event loop
    status,        \* per chain: idle, running, suspended
    stack,         \* per chain: the frames of calls in progress
    saved,         \* per chain: the store captured at its suspension point
    base,          \* per chain: the store the chain was created in
    spans,         \* every span the tracer has handed out
    nSpans,        \* number of spans started
    op,            \* the operation performed by the last step
    \* ---- instrumentation registry (SpecReg) ----
    activeInstrumentations, \* AtlaInsights.activeInstrumentations
    handles,       \* every instrumentation or trace processor ever created
    nHandles,      \* number of handles created
    held,          \* per service: disposable resources not yet released
    rRet,          \* the last instrument / uninstrument call and its result
    \* ---- environment of the process ----
    git,           \* utils.ts currentGit*: what git tracking found, if enabled
    \* ---- attribute mappers of the OpenAI Agents processor ----
    fIn,           \* the argument of the mapper
    fOut,          \* the attributes the mapper yielded, and whether it threw
    \* ---- OpenAIAgentsProcessor (SpecAgents, SpecToolCache, SpecHandoff) ----
    rootSpans,     \* OpenAIAgentsProcessor.rootSpans
    spanMap,       \* OpenAIAgentsProcessor.spanMap
    tokens,        \* OpenAIAgentsProcessor.tokens
    toolCache,     \* OpenAIAgentsProcessor.toolCache
    reverseHandoffsMap, \* OpenAIAgentsProcessor.reverseHandoffsMap
    otel,          \* the spans the processor obtained from the tracer
    nOtel,         \* number of spans obtained from the tracer
    declared,      \* per trace: the tools its responses declared (history)
    aRet,          \* the last event delivered and how its handler completed
    \* ---- instrument(): wrapping and invoking (SpecWrap) ----
    wrappers,      \* what instrument() and its decorators have returned
    nWrappers,     \* number of calls of instrument()
    wRet           \* the last call of instrumentFunction or of a wrapper

metaVars  == <<mInput, mPhase, globalMetadata, procMetadata, mConfigured,
               mScoped, mSpan, mRet>>
chainVars == <<active, cur, status, stack, saved, base, spans, nSpans, op>>
regVars   == <<activeInstrumentations, handles, nHandles, held, rRet>>
envVars   == <<git>>
attrVars  == <<fIn, fOut>>
agentVars == <<rootSpans, spanMap, tokens, toolCache, reverseHandoffsMap,
               otel, nOtel, declared, aRet>>
wrapVars  == <<wrappers, nWrappers, wRet>>
vars      == <<metaVars, chainVars, regVars, envVars, attrVars, agentVars,
               wrapVars>>

----------------------------------------------------------------------------
(* Program constants: src/internal/constants.ts                            *)
MAX_METADATA_FIELDS == 25
MAX_METADATA_KEY_CHARS == 40
MAX_METADATA_VALUE_CHARS == 100

(* Bounds of the model.                                                    *)
MaxExtraFields == 2   \* inputs have up to MAX_METADATA_FIELDS + this many fields
MaxOver == 5          \* oversized strings exceed their limit by up to this much

Max(a, b) == IF a > b THEN a ELSE b
Min(a, b) == IF a < b THEN a ELSE b

----------------------------------------------------------------------------
(* Strings.  A string is [h, n, t]: n its length, h the identity of its    *)
(* first min(n, limit) characters, t the identity of the characters beyond *)
(* the limit (0 when there are none).  A value also carries str, FALSE for *)
(* a value that is not a string (number, boolean, ...).                    *)

(* metadata.ts truncateValue: value.substring(0, maxLength) when too long. *)
truncateValue(value, maxLength) ==
    IF value.n > maxLength
        THEN [value EXCEPT !.n = maxLength, !.t = 0]
        ELSE value

(* String(value): a non-string becomes the string of the same characters.  *)
StringOf(value) == [value EXCEPT !.str = TRUE]

(* Objects.  A mapping is the sequence of its entries [k, v] in property   *)
(* order, keys pairwise different.                                         *)
EmptyMap == << >>

KeysOf(m) == {m[i].k : i \in 1..Len(m)}

IndexOfKey(m, key) == CHOOSE i \in 1..Len(m) : m[i].k = key

(* metadata[key] = value: replaces in place, or appends a new property.    *)
SetProp(m, key, value) ==
    IF key \in KeysOf(m)
        THEN [m EXCEPT ![IndexOfKey(m, key)] = [k |-> key, v |-> value]]
        ELSE Append(m, [k |-> key, v |-> value])

(* delete metadata[key]                                                    *)
DeleteProp(m, key) == SelectSeq(m, LAMBDA e : e.k # key)

(* { ...a, ...b }                                                          *)
RECURSIVE SpreadInto(_, _)
SpreadInto(a, b) ==
    IF b = << >> THEN a
    ELSE SpreadInto(SetProp(a, Head(b).k, Head(b).v), Tail(b))

----------------------------------------------------------------------------
(* validateMetadata, src/metadata.ts:27-95.  An argument is [kind, m]:     *)
(* kind "object" with mapping m, or "null", "undefined", "array",          *)
(* "string" (a primitive).  The result records whether the call threw,     *)
(* the mapping returned (out), and the caller's object after the call      *)
(* (arg): the function works on the caller's object until a step copies.   *)

DictError == "The metadata field must be a dictionary."

IsDictionary(metadata) == metadata.kind = "object"

(* lines 39-51: every entry whose value is not a string is deleted from a  *)
(* fresh copy and re-added with String(value), which moves it to the end.  *)
RECURSIVE CoerceEntries(_, _)
CoerceEntries(m, entries) ==
    IF entries = << >> THEN m
    ELSE LET e == Head(entries) IN
         IF ~e.v.str
            THEN CoerceEntries(
                     SetProp(DeleteProp(m, e.k), e.k, StringOf(e.v)),
                     Tail(entries))
            ELSE CoerceEntries(m, Tail(entries))

HasNonString(m) == \E i \in 1..Len(m) : ~m[i].v.str

(* lines 54-61: Object.entries(metadata).slice(0, MAX_METADATA_FIELDS)     *)
LimitFields(m) ==
    IF Len(m) > MAX_METADATA_FIELDS
        THEN SubSeq(m, 1, MAX_METADATA_FIELDS)
        ELSE m

(* lines 64-77: when some key is oversized, rebuild with truncated keys.   *)
HasOversizedKey(m) == \E i \in 1..Len(m) : m[i].k.n > MAX_METADATA_KEY_CHARS

RECURSIVE RebuildKeys(_, _)
RebuildKeys(newMetadata, entries) ==
    IF entries = << >> THEN newMetadata
    ELSE RebuildKeys(
             SetProp(newMetadata,
                     truncateValue(Head(entries).k, MAX_METADATA_KEY_CHARS),
                     Head(entries).v),
             Tail(entries))

TruncateKeys(m) == IF HasOversizedKey(m) THEN RebuildKeys(EmptyMap, m) ELSE m

(* lines 80-92: oversized values are truncated in the object at hand.      *)
HasOversizedValue(m) ==
    \E i \in 1..Len(m) : m[i].v.n > MAX_METADATA_VALUE_CHARS

TruncateValues(m) ==
    [i \in 1..Len(m) |->
        [k |-> m[i].k, v |-> truncateValue(m[i].v, MAX_METADATA_VALUE_CHARS)]]

validateMetadata(metadata) ==
    IF ~IsDictionary(metadata)
        THEN [threw |-> TRUE, out |-> EmptyMap, arg |-> metadata]
        ELSE LET m0 == metadata.m
                 m1 == CoerceEntries(m0, m0)
                 m2 == LimitFields(m1)
                 m3 == TruncateKeys(m2)
                 m4 == TruncateValues(m3)
                 copied == HasNonString(m0)
                           \/ Len(m1) > MAX_METADATA_FIELDS
                           \/ HasOversizedKey(m2)
             IN [threw |-> FALSE,
                 out   |-> m4,
                 arg   |-> IF copied THEN metadata
                           ELSE [kind |-> "object", m |-> m4]]

(* metadata || {} : null, undefined (and the empty string) become {}.      *)
OrEmpty(metadata) ==
    IF metadata.kind \in {"null", "undefined"}
        THEN [kind |-> "object", m |-> EmptyMap]
        ELSE metadata

(* JSON.stringify of a mapping: the entries in property order, each value  *)
(* keeping its type (a string is quoted, a number is not).                 *)
JSONstringify(m) == [json |-> m]
JSONparse(text) == text.json

----------------------------------------------------------------------------
(* The metadata a caller may pass.  Field i of a plain object has a short  *)
(* key and a short string value; a variation changes one field.            *)
PlainEntry(i) ==
    [k |-> [h |-> i, n |-> 5, t |-> 0],
     v |-> [str |-> TRUE, h |-> i, n |-> 5, t |-> 0]]

Variations ==
    {"longkey", "sharedkey", "edgekey", "longval", "edgeval", "nonstr"}

Vary(e, kind, over) ==
    CASE kind = "longkey" ->
            [e EXCEPT !.k = [h |-> e.k.h, n |-> MAX_METADATA_KEY_CHARS + over,
                             t |-> e.k.h]]
      [] kind = "sharedkey" ->
            [e EXCEPT !.k = [h |-> 0, n |-> MAX_METADATA_KEY_CHARS + over,
                             t |-> e.k.h]]
      [] kind = "edgekey" ->
            [e EXCEPT !.k.n = MAX_METADATA_KEY_CHARS]
      [] kind = "longval" ->
            [e EXCEPT !.v.n = MAX_METADATA_VALUE_CHARS + over, !.v.t = 1]
      [] kind = "edgeval" ->
            [e EXCEPT !.v.n = MAX_METADATA_VALUE_CHARS]
      [] kind = "nonstr" ->
            [e EXCEPT !.v.str = FALSE]
      [] OTHER -> e

PlainMap(n) == [i \in 1..n |-> PlainEntry(i)]

FieldCounts ==
    {0, 1, 2, MAX_METADATA_FIELDS - 1}
        \cup (MAX_METADATA_FIELDS .. MAX_METADATA_FIELDS + MaxExtraFields)

VariedPositions(n) == {1, 2, n - 1, n} \cap (1..n)

Object(m) == [kind |-> "object", m |-> m]
NonObjects == {[kind |-> x, m |-> EmptyMap] :
                   x \in {"null", "undefined", "array", "string"}}

VariedOnce(n) ==
    {Object([PlainMap(n) EXCEPT ![p] = Vary(@, kind, over)]) :
        p \in VariedPositions(n), kind \in Variations, over \in {1, MaxOver}}

VariedTwice(n) ==
    {Object([PlainMap(n) EXCEPT ![1] = Vary(@, k1, MaxOver),
                                 ![n] = Vary(@, k2, MaxOver)]) :
        k1 \in Variations, k2 \in Variations}

InputFamily ==
    NonObjects
    \cup {Object(PlainMap(n)) : n \in FieldCounts}
    \cup UNION {VariedOnce(n) : n \in FieldCounts}
    \cup UNION {VariedTwice(n) : n \in FieldCounts \ {0, 1}}

(* The updates given to setMetadata and withMetadata: fields 101, 102 are  *)
(* new, field 1 overrides a field of the plain objects.                    *)
UpdateFamily ==
    {[kind |-> "undefined", m |-> EmptyMap],
     Object(<<PlainEntry(101)>>),
     Object(<<PlainEntry(102)>>),
     Object(<<[PlainEntry(1) EXCEPT !.v.h = 9]>>),
     Object(<<Vary(PlainEntry(101), "longval", MaxOver),
              Vary(PlainEntry(102), "nonstr", MaxOver)>>)}

----------------------------------------------------------------------------
(* The metadata write paths.                                               *)

NoScope == << >>
NoSpanAttr ==
    [started |-> FALSE, hasMeta |-> FALSE, meta |-> JSONstringify(EmptyMap),
     writer |-> "none", scope |-> NoScope]
NoCall == [fn |-> "none", inp |-> Object(EmptyMap), threw |-> FALSE,
           out |-> EmptyMap, arg |-> Object(EmptyMap)]

Call(fn, inp, res) ==
    [fn |-> fn, inp |-> inp, threw |-> res.threw, out |-> res.out,
     arg |-> res.arg]

(* metadata.ts:128-135 getMetadata: contextMetadata || globalMetadata      *)
getMetadata ==
    IF mScoped # NoScope THEN Head(mScoped) ELSE globalMetadata

(* span.setAttribute(METADATA_MARK, value); writer and scope remember who  *)
(* wrote the attribute last and in which scopes.                           *)
WriteMetadataMark(span, value, writer) ==
    [span EXCEPT !.hasMeta = TRUE, !.meta = value, !.writer = writer,
                 !.scope = mScoped]

(* main.ts:52-103 configure with a token: this.metadata = metadata;        *)
(* if (metadata) setGlobalMetadata(metadata) (metadata.ts:100-102); the    *)
(* root span processor is constructed with this.metadata, the caller's     *)
(* object.                                                                 *)
MConfigure ==
    /\ mPhase = "start"
    /\ LET truthy == mInput.kind \notin {"null", "undefined"}
           res == validateMetadata(OrEmpty(mInput))
       IN IF truthy /\ res.threw
             THEN /\ mPhase' = "failed"
                  /\ mRet' = Call("setGlobalMetadata", mInput, res)
                  /\ UNCHANGED <<globalMetadata, procMetadata, mConfigured>>
             ELSE /\ mPhase' = "configured"
                  /\ mConfigured' = TRUE
                  /\ globalMetadata' = IF truthy THEN res.out ELSE globalMetadata
                  /\ procMetadata' = IF truthy THEN res.arg ELSE mInput
                  /\ mRet' = IF truthy
                                THEN Call("setGlobalMetadata", mInput, res)
                                ELSE mRet
    /\ UNCHANGED <<mInput, mScoped, mSpan, chainVars, regVars, envVars, attrVars, agentVars, wrapVars>>

(* atla_root_span_processor.ts:40-94 onStart for a span without parent,    *)
(* lines 91-93: the configured metadata is stamped when it is not empty.   *)
MStartRootSpan ==
    /\ mPhase = "configured"
    /\ ~mSpan.started
    /\ mSpan' =
         LET s == [mSpan EXCEPT !.started = TRUE] IN
         IF procMetadata.kind = "object" /\ Len(procMetadata.m) > 0
            THEN WriteMetadataMark(s, JSONstringify(procMetadata.m), "onStart")
            ELSE s
    /\ UNCHANGED <<mInput, mPhase, globalMetadata, procMetadata, mConfigured,
                   mScoped, mRet, chainVars, regVars, envVars, attrVars, agentVars, wrapVars>>

(* metadata.ts:108-123 setMetadata: without an active span nothing         *)
(* happens; the merged metadata is in the context only while the           *)
(* attribute is written (otelContext.with around span.setAttribute).       *)
MSetMetadata(u) ==
    /\ mPhase = "configured"
    /\ IF ~mSpan.started
          THEN UNCHANGED <<mSpan, mRet>>
          ELSE LET res == validateMetadata(u)
                   mergedMetadata == SpreadInto(getMetadata, res.out)
               IN /\ mRet' = Call("setMetadata", u, res)
                  /\ mSpan' = IF res.threw THEN mSpan
                              ELSE WriteMetadataMark(mSpan,
                                       JSONstringify(mergedMetadata), "setMetadata")
    /\ UNCHANGED <<mInput, mPhase, globalMetadata, procMetadata, mConfigured,
                   mScoped, chainVars, regVars, envVars, attrVars, agentVars, wrapVars>>

(* metadata.ts:153-162 clearMetadata                                       *)
MClearMetadata ==
    /\ mPhase = "configured"
    /\ mSpan.started
    /\ mSpan' = WriteMetadataMark(mSpan, JSONstringify(globalMetadata),
                                  "clearMetadata")
    /\ UNCHANGED <<mInput, mPhase, globalMetadata, procMetadata, mConfigured,
                   mScoped, mRet, chainVars, regVars, envVars, attrVars, agentVars, wrapVars>>

(* metadata.ts:140-148 withMetadata: fn runs with the validated metadata   *)
(* under METADATA_CONTEXT_KEY; the scope ends when fn has completed.       *)
MaxScopes == 1

MWithMetadata(u) ==
    /\ mPhase = "configured"
    /\ Len(mScoped) < MaxScopes
    /\ LET res == validateMetadata(u)
       IN /\ mRet' = Call("withMetadata", u, res)
          /\ mScoped' = IF res.threw THEN mScoped ELSE <<res.out>> \o mScoped
    /\ UNCHANGED <<mInput, mPhase, globalMetadata, procMetadata, mConfigured,
                   mSpan, chainVars, regVars, envVars, attrVars, agentVars, wrapVars>>

MWithMetadataDone ==
    /\ mScoped # NoScope
    /\ mScoped' = Tail(mScoped)
    /\ UNCHANGED <<mInput, mPhase, globalMetadata, procMetadata, mConfigured,
                   mSpan, mRet, chainVars, regVars, envVars, attrVars, agentVars, wrapVars>>

----------------------------------------------------------------------------
(* Call chains.  Bounds of the model.                                      *)
MaxChains == 2    \* chains (top-level or detached) that may exist
MaxSpans == 2     \* spans the tracer may hand out
MaxCalls == 2     \* calls in progress at one time, over all chains

Chains == 1..MaxChains
SpanIds == 1..MaxSpans

NoErr == "none"
Errors == {"boom"}
MarkError == "Atla marking can only be done within an instrumented function."

(* marking.ts / constants.ts: values of the SUCCESS_MARK attribute         *)
SUCCESS_UNSET == -1
SUCCESS_FAILURE == 0
SUCCESS_SUCCESS == 1
Absent == SUCCESS_UNSET - 1   \* the attribute was never set on the span

(* experiments.ts:13-21 Experiment and RunExperimentOptions; "none" is an  *)
(* absent field.                                                           *)
NoExperiment == [name |-> "none", description |-> "none"]
GeneratedId == "word-word-word-word-hex8"
NamedExperiment == [experimentName |-> "exp-a", description |-> "none"]
ExperimentOptions ==
    {NamedExperiment,
     [experimentName |-> "none", description |-> "text"],
     [experimentName |-> "", description |-> ""]}

(* context.ts AtlaContext; has = FALSE is "no Atla context in this store". *)
NoAtlaContext ==
    [has |-> FALSE, rootSpan |-> 0, suppressInstrumentation |-> FALSE,
     experiment |-> NoExperiment]
EmptyAtlaContext == [NoAtlaContext EXCEPT !.has = TRUE]

NoScopedMetadata == [has |-> FALSE, m |-> EmptyMap]

(* The store of the context manager: the active span, the Atla context     *)
(* (atlaContextKey) and the scoped metadata (METADATA_CONTEXT_KEY).        *)
ROOT_CONTEXT ==
    [span |-> 0, atla |-> NoAtlaContext, meta |-> NoScopedMetadata]

(* context.ts getAtlaContext                                               *)
getAtlaContext(context) == context.atla

(* context.ts runWithContext: { ...current, ...updates } over              *)
(* getAtlaContext(context) ?? {}; updates.fields are the fields present.   *)
MergeContext(current, updates) ==
    [has |-> TRUE,
     rootSpan |-> IF "rootSpan" \in updates.fields
                     THEN updates.rootSpan ELSE current.rootSpan,
     suppressInstrumentation |->
                  IF "suppressInstrumentation" \in updates.fields
                     THEN updates.suppressInstrumentation
                     ELSE current.suppressInstrumentation,
     experiment |-> IF "experiment" \in updates.fields
                     THEN updates.experiment ELSE current.experiment]

runWithContext(context, updates) ==
    LET current == IF getAtlaContext(context).has
                      THEN getAtlaContext(context) ELSE EmptyAtlaContext
    IN [context EXCEPT !.atla = MergeContext(current, updates)]

(* Faulty variant: the store of the callee stays active.                   *)
StoreAfterWith_Kept(frame, current) == current

(* otelContext.with(context, fn): when fn has completed the store is the   *)
(* one the caller had.                                                     *)
StoreAfterWith(frame, current) == frame.entry

(* Faulty variant: one store shared by all continuations.                  *)
StoreOnResume_Shared(captured, current) == current

(* The store a continuation runs in is the one captured when it was        *)
(* suspended (or created).                                                 *)
StoreOnResume(captured, current) == captured

(* Faulty variant: { ...context, rootSpan: span }.                         *)
RootSpanUpdates_Overwrite(context, span) ==
    [fields |-> (IF context.has
                    THEN {"rootSpan", "suppressInstrumentation", "experiment"}
                    ELSE {}) \cup {"rootSpan"},
     rootSpan |-> span,
     suppressInstrumentation |-> context.suppressInstrumentation,
     experiment |-> context.experiment]

(* instrumentation.ts: the updates of an instrumented call,                *)
(* { ...context, rootSpan: context?.rootSpan ?? span }; span.ts:194-197.   *)
RootSpanUpdates(context, span) ==
    [fields |-> (IF context.has
                    THEN {"rootSpan", "suppressInstrumentation", "experiment"}
                    ELSE {}) \cup {"rootSpan"},
     rootSpan |-> IF context.rootSpan # 0 THEN context.rootSpan ELSE span,
     suppressInstrumentation |-> context.suppressInstrumentation,
     experiment |-> context.experiment]

(* experiments.ts:82-92                                                    *)
(* experiments.ts:82-87: options.experimentName || generateExperimentId(), *)
(* ...(options.description && { description }): an empty string counts    *)
(* as not given.                                                           *)
ExperimentOf(options) ==
    [name |-> IF options.experimentName \notin {"none", ""}
                 THEN options.experimentName ELSE GeneratedId,
     description |-> IF options.description \notin {"none", ""}
                        THEN options.description ELSE "none"]

ExperimentUpdates(options) ==
    [fields |-> {"experiment"}, rootSpan |-> 0,
     suppressInstrumentation |-> FALSE, experiment |-> ExperimentOf(options)]

SuppressUpdates ==
    [fields |-> {"suppressInstrumentation"}, rootSpan |-> 0,
     suppressInstrumentation |-> TRUE, experiment |-> NoExperiment]

(* Spans.                                                                  *)
NoGit == "none"
HeadCommit == "repo@branch:commit"
NoMetadataAttr == [has |-> FALSE, value |-> JSONstringify(EmptyMap)]

NoSpan ==
    [started |-> FALSE, by |-> "none", parent |-> 0,
     success |-> Absent, environment |-> "none",
     experimentName |-> "none", experimentDescription |-> "none",
     git |-> NoGit, metadata |-> NoMetadataAttr,
     ended |-> 0, log |-> << >>, marked |-> SUCCESS_UNSET]

(* atla_root_span_processor.ts:43-62: unless git tracking is disabled, the *)
(* git attributes that were resolved are set on the span.                  *)
GitStamp(span) ==
    IF git # NoGit THEN [span EXCEPT !.git = git] ELSE span

(* Faulty variant: the description is left out.                            *)
ExperimentStamp_NoDescription(span, experiment) ==
    [span EXCEPT !.environment = "dev", !.experimentName = experiment.name]

(* atla_root_span_processor.ts:73-88: ENVIRONMENT_MARK "dev", the name of  *)
(* the experiment and, if it has one, its description.                     *)
ExperimentStamp(span, experiment) ==
    [span EXCEPT !.environment = "dev",
                 !.experimentName = experiment.name,
                 !.experimentDescription =
                     IF experiment.description # "none"
                        THEN experiment.description ELSE @]

(* atla_root_span_processor.ts:91-93: the metadata the processor was       *)
(* constructed with, when it has at least one key.                         *)
MetadataStamp(span) ==
    IF procMetadata.kind = "object" /\ Len(procMetadata.m) > 0
       THEN [span EXCEPT !.metadata =
                [has |-> TRUE, value |-> JSONstringify(procMetadata.m)]]
       ELSE span

(* atla_root_span_processor.ts:40-94 onStart: git attributes on every      *)
(* span; then a span with a parent is left alone; a root span gets         *)
(* SUCCESS_MARK -1, the experiment of the parent context and the           *)
(* configured metadata.  (The scope renaming of line 41 concerns only the  *)
(* spans of the OpenInference instrumentations.)                           *)
onStart(span, parentContext) ==
    LET tracked == GitStamp(span) IN
    IF span.parent # 0 THEN tracked
    ELSE LET atlaContext == getAtlaContext(parentContext)
             marked == [tracked EXCEPT !.success = SUCCESS_UNSET]
             stamped ==
                 IF atlaContext.has /\ atlaContext.experiment # NoExperiment
                    THEN ExperimentStamp(marked, atlaContext.experiment)
                    ELSE marked
         IN MetadataStamp(stamped)

(* tracer.startActiveSpan: the new span is a child of the active span.     *)
startSpan(by, parentContext) ==
    onStart([NoSpan EXCEPT !.started = TRUE, !.by = by,
                           !.parent = parentContext.span,
                           !.log = <<"start">>],
            parentContext)

recordException(span, error) == [span EXCEPT !.log = Append(@, error)]
endSpan(span) == [span EXCEPT !.ended = @ + 1, !.log = Append(@, "end")]

RECURSIVE TraceRoot(_)
TraceRoot(s) == IF spans[s].parent = 0 THEN s ELSE TraceRoot(spans[s].parent)

(* Frames: one per call in progress.  settles is, in the first frame of a  *)
(* continuation, the span of the invocation whose returned promise the     *)
(* continuation settles (0: none).                                         *)
Frame(kind, isAsync, span, entry) ==
    [kind |-> kind, async |-> isAsync, span |-> span, entry |-> entry,
     err |-> NoErr, pass |-> FALSE,
     experiment |-> NoExperiment, meta |-> NoScopedMetadata,
     suppress |-> FALSE, settles |-> 0]

Top(c) == stack[c][Len(stack[c])]
Depth(c) == Len(stack[c])
Running(c) == cur = c /\ status[c] = "running" /\ Top(c).err = NoErr

Push(c, frame) == stack' = [stack EXCEPT ![c] = Append(@, frame)]
SetTopErr(c, e) == stack' = [stack EXCEPT ![c][Len(stack[c])].err = e]

RECURSIVE CallsOf(_)
CallsOf(S) ==
    IF S = {} THEN 0
    ELSE LET c == CHOOSE d \in S : TRUE
         IN Max(0, Len(stack[c]) - 1) + CallsOf(S \ {c})

CallsInProgress == CallsOf(Chains)

CanCall(c, isAsync) ==
    /\ Running(c)
    /\ CallsInProgress < MaxCalls
    /\ isAsync => Top(c).async

(* The last step, as far as the properties need to tell steps apart.       *)
Step == "step"
MarkStep(value) == IF value = SUCCESS_SUCCESS THEN "markSuccess" ELSE "markFailure"

----------------------------------------------------------------------------
(* Operations of a chain.  Code runs to completion on the one thread:      *)
(* only the chain in cur steps, until it suspends or finishes.             *)

FirstIdle == CHOOSE d \in Chains :
                 status[d] = "idle" /\ \A e \in Chains : status[e] = "idle" => d <= e

TopFrame == Frame("top", TRUE, 0, ROOT_CONTEXT)

(* A top-level asynchronous task starts from the event loop.               *)
StartChain ==
    /\ cur = 0
    /\ \E d \in Chains : status[d] = "idle"
    /\ LET c == FirstIdle IN
        /\ status' = [status EXCEPT ![c] = "running"]
        /\ stack' = [stack EXCEPT ![c] = <<TopFrame>>]
        /\ base' = [base EXCEPT ![c] = active]
        /\ cur' = c
        /\ op' = Step
    /\ UNCHANGED <<active, saved, spans, nSpans, metaVars, regVars, envVars, attrVars, agentVars, wrapVars>>

(* The running code starts an asynchronous call and does not await it:     *)
(* its continuation runs later in the store that is active now.            *)
Detach(c) ==
    /\ Running(c)
    /\ \E d \in Chains : status[d] = "idle"
    /\ LET d == FirstIdle IN
        /\ status' = [status EXCEPT ![d] = "suspended"]
        /\ stack' = [stack EXCEPT ![d] = <<[TopFrame EXCEPT !.entry = active]>>]
        /\ base' = [base EXCEPT ![d] = active]
        /\ saved' = [saved EXCEPT ![d] = active]
        /\ op' = Step
    /\ UNCHANGED <<active, cur, spans, nSpans, metaVars, regVars, envVars, attrVars, agentVars, wrapVars>>

(* The chains whose completion settles the promise that the invocation    *)
(* with span s returned.                                                   *)
PendingResultOf(s) ==
    {d \in Chains : stack[d] # << >> /\ stack[d][1].settles = s}

(* A function that is not declared async (instrumentedSync,                *)
(* instrumentation.ts:336-361) starts asynchronous work and returns its    *)
(* promise: the work continues later in the store that is active now, and  *)
(* its completion settles the result of the invocation.                    *)
ReturnPending(c) ==
    /\ Running(c)
    /\ Top(c).kind = "instrument"
    /\ ~Top(c).async
    /\ Top(c).span # 0
    /\ PendingResultOf(Top(c).span) = {}
    /\ \E d \in Chains : status[d] = "idle"
    /\ LET d == FirstIdle IN
        /\ status' = [status EXCEPT ![d] = "suspended"]
        /\ stack' = [stack EXCEPT
                        ![d] = <<[TopFrame EXCEPT !.entry = active,
                                                  !.settles = Top(c).span]>>]
        /\ base' = [base EXCEPT ![d] = active]
        /\ saved' = [saved EXCEPT ![d] = active]
        /\ op' = Step
    /\ UNCHANGED <<active, cur, spans, nSpans, metaVars, regVars, envVars, attrVars, agentVars, wrapVars>>

(* await: the continuation is suspended with the active store captured.    *)
Await(c) ==
    /\ Running(c)
    /\ Top(c).async
    /\ status' = [status EXCEPT ![c] = "suspended"]
    /\ saved' = [saved EXCEPT ![c] = active]
    /\ active' = ROOT_CONTEXT
    /\ cur' = 0
    /\ op' = Step
    /\ UNCHANGED <<stack, base, spans, nSpans, metaVars, regVars, envVars, attrVars, agentVars, wrapVars>>

Resume(c) ==
    /\ cur = 0
    /\ status[c] = "suspended"
    /\ status' = [status EXCEPT ![c] = "running"]
    /\ active' = StoreOnResume(saved[c], active)
    /\ saved' = [saved EXCEPT ![c] = ROOT_CONTEXT]
    /\ cur' = c
    /\ op' = Step
    /\ UNCHANGED <<stack, base, spans, nSpans, metaVars, regVars, envVars, attrVars, agentVars, wrapVars>>

(* instrumentation.ts instrumentedSync / instrumentedAsync, entry: under   *)
(* suppression the function is called directly; otherwise a span is        *)
(* started as the active span and the function runs in the context with    *)
(* rootSpan.                                                               *)
(* Faulty variant: the flag is not looked at.                              *)
IsSuppressed_Never(context) == FALSE

(* instrumentation.ts: if (context?.suppressInstrumentation)               *)
IsSuppressed(context) == context.has /\ context.suppressInstrumentation

CallInstrument(c, isAsync) ==
    /\ CanCall(c, isAsync)
    /\ LET context == getAtlaContext(active) IN
       IF IsSuppressed(context)
          THEN /\ Push(c, [Frame("instrument", isAsync, 0, active)
                              EXCEPT !.pass = TRUE])
               /\ UNCHANGED <<active, spans, nSpans>>
          ELSE /\ nSpans < MaxSpans
               /\ LET s == nSpans + 1
                      withSpan == [active EXCEPT !.span = s]
                  IN /\ nSpans' = s
                     /\ spans' = [spans EXCEPT
                                     ![s] = startSpan("instrument", active)]
                     /\ active' = runWithContext(withSpan,
                                                 RootSpanUpdates(context, s))
                     /\ Push(c, Frame("instrument", isAsync, s, active))
    /\ op' = Step
    /\ UNCHANGED <<cur, status, saved, base, metaVars, regVars, envVars, attrVars, agentVars, wrapVars>>

(* span.ts:179-205 startAsCurrentSpan: an async function, no suppression   *)
(* check.                                                                  *)
CallStartAsCurrentSpan(c) ==
    /\ CanCall(c, TRUE)
    /\ nSpans < MaxSpans
    /\ LET s == nSpans + 1
           withSpan == [active EXCEPT !.span = s]
           currentContext == getAtlaContext(withSpan)
       IN /\ nSpans' = s
          /\ spans' = [spans EXCEPT
                          ![s] = startSpan("startAsCurrentSpan", active)]
          /\ active' = runWithContext(withSpan,
                                      RootSpanUpdates(currentContext, s))
          /\ Push(c, Frame("startAsCurrentSpan", TRUE, s, active))
    /\ op' = Step
    /\ UNCHANGED <<cur, status, saved, base, metaVars, regVars, envVars, attrVars, agentVars, wrapVars>>

(* experiments.ts:78-113 runExperiment                                     *)
CallRunExperiment(c, options) ==
    /\ CanCall(c, Top(c).async)
    /\ active' = runWithContext(active, ExperimentUpdates(options))
    /\ Push(c, [Frame("runExperiment", Top(c).async, 0, active)
                   EXCEPT !.experiment = ExperimentOf(options)])
    /\ op' = Step
    /\ UNCHANGED <<cur, status, saved, base, spans, nSpans, metaVars, regVars, envVars, attrVars, agentVars, wrapVars>>

(* metadata.ts:140-148 withMetadata                                        *)
ChainMetadata == {Object(<<Vary(PlainEntry(2), "longval", 1)>>)}

CallWithMetadata(c, metadata) ==
    /\ CanCall(c, Top(c).async)
    /\ LET res == validateMetadata(metadata)
           scoped == [has |-> TRUE, m |-> res.out]
       IN IF res.threw
             THEN /\ SetTopErr(c, DictError)
                  /\ UNCHANGED active
             ELSE /\ active' = [active EXCEPT !.meta = scoped]
                  /\ Push(c, [Frame("withMetadata", Top(c).async, 0, active)
                                 EXCEPT !.meta = scoped])
    /\ op' = Step
    /\ UNCHANGED <<cur, status, saved, base, spans, nSpans, metaVars, regVars, envVars, attrVars, agentVars, wrapVars>>

(* runWithContext({ suppressInstrumentation: true }, fn)                   *)
CallSuppressed(c) ==
    /\ CanCall(c, Top(c).async)
    /\ active' = runWithContext(active, SuppressUpdates)
    /\ Push(c, [Frame("suppress", Top(c).async, 0, active) EXCEPT !.suppress = TRUE])
    /\ op' = Step
    /\ UNCHANGED <<cur, status, saved, base, spans, nSpans, metaVars, regVars, envVars, attrVars, agentVars, wrapVars>>

(* The running function throws.                                            *)
Throw(c, e) ==
    /\ Running(c)
    /\ SetTopErr(c, e)
    /\ op' = Step
    /\ UNCHANGED <<active, cur, status, saved, base, spans, nSpans, metaVars, regVars, envVars, attrVars, agentVars, wrapVars>>

(* The running function catches the exception of the call it made.         *)
Catch(c) ==
    /\ cur = c
    /\ status[c] = "running"
    /\ Top(c).err # NoErr
    /\ SetTopErr(c, NoErr)
    /\ op' = Step
    /\ UNCHANGED <<active, cur, status, saved, base, spans, nSpans, metaVars, regVars, envVars, attrVars, agentVars, wrapVars>>

(* Faulty variant: span.end() after the try block instead of in finally.   *)
FinishInstrumented_NoFinally(span, err) ==
    IF err # NoErr THEN recordException(span, err) ELSE endSpan(span)

(* instrumentation.ts: catch { span.recordException(error); throw error }  *)
(* finally { span.end() }                                                  *)
FinishInstrumented(span, err) ==
    endSpan(IF err # NoErr THEN recordException(span, err) ELSE span)

(* span.ts:192-202: try { ... } finally { span.end() }                     *)
FinishManual(span, err) == endSpan(span)

(* Faulty variant: the catch block does not re-throw.                      *)
ErrorToCaller_Swallowed(frame) == NoErr

(* What the caller of a completed call receives: the wrappers re-throw     *)
(* the error of the wrapped function.                                      *)
ErrorToCaller(frame) == frame.err

(* The call on top of the stack completes (returns or throws).             *)
Exit(c) ==
    /\ cur = c
    /\ status[c] = "running"
    /\ Depth(c) > 1
    /\ LET f == Top(c)
           n == Depth(c)
       IN /\ spans' =
                IF f.span = 0 THEN spans
                ELSE IF f.kind = "instrument"
                    THEN [spans EXCEPT
                             ![f.span] = FinishInstrumented(@, f.err)]
                    ELSE [spans EXCEPT ![f.span] = FinishManual(@, f.err)]
          /\ active' = StoreAfterWith(f, active)
          /\ stack' = [stack EXCEPT
                          ![c] = [SubSeq(@, 1, n - 1) EXCEPT
                                     ![n - 1].err = ErrorToCaller(f)]]
          /\ op' = Step
    /\ UNCHANGED <<cur, status, saved, base, nSpans, metaVars, regVars, envVars, attrVars, agentVars, wrapVars>>

(* The body of the chain completes.                                        *)
Finish(c) ==
    /\ cur = c
    /\ status[c] = "running"
    /\ Depth(c) = 1
    /\ status' = [status EXCEPT ![c] = "idle"]
    /\ stack' = [stack EXCEPT ![c] = << >>]
    /\ base' = [base EXCEPT ![c] = ROOT_CONTEXT]
    /\ active' = ROOT_CONTEXT
    /\ cur' = 0
    /\ op' = Step
    /\ UNCHANGED <<saved, spans, nSpans, metaVars, regVars, envVars, attrVars, agentVars, wrapVars>>

(* span.setAttribute(SUCCESS_MARK, value).  A span that has ended is       *)
(* terminal: whether a later write is kept is up to the tracing library,   *)
(* so both outcomes are possible.                                          *)
setSuccessMark(span, value) ==
    IF span.ended > 0
        THEN {span, [span EXCEPT !.success = value]}
        ELSE {[span EXCEPT !.success = value]}

(* marking.ts markRootSpan (markSuccess: 1, markFailure: 0).  marked       *)
(* remembers, on the root of the trace of the active span, the value of    *)
(* the latest mark made in that trace.                                     *)
(* Faulty variant: a mark without root span is ignored.                    *)
MarkOutsideInstrumented_Silent(c, value) == UNCHANGED <<stack, spans>>

(* marking.ts: if (!rootSpan) throw new Error(...)                         *)
MarkOutsideInstrumented(c, value) ==
    /\ SetTopErr(c, MarkError)
    /\ UNCHANGED spans

markRootSpan(c, value) ==
    /\ Running(c)
    /\ LET context == getAtlaContext(active)
           rootSpan == context.rootSpan
           noted == IF active.span # 0
                       THEN [spans EXCEPT
                                ![TraceRoot(active.span)].marked = value]
                       ELSE spans
       IN IF ~context.has \/ rootSpan = 0
             THEN MarkOutsideInstrumented(c, value)
             ELSE /\ \E written \in setSuccessMark(noted[rootSpan], value) :
                         spans' = [noted EXCEPT ![rootSpan] = written]
                  /\ UNCHANGED stack
    /\ op' = MarkStep(value)
    /\ UNCHANGED <<active, cur, status, saved, base, nSpans, metaVars, regVars, envVars, attrVars, agentVars, wrapVars>>

----------------------------------------------------------------------------
(* The instrumentation registry: AtlaInsights.activeInstrumentations       *)
(* (main.ts) and the instrumentX / uninstrumentX / withInstrumentedX       *)
(* functions of the integrations.  A handle is an instrumentation object   *)
(* (OpenAI, LangChain) or a trace processor (OpenAI Agents).               *)

MaxHandles == 3       \* handles created in one run

OPENAI == "openai"
LANGCHAIN == "langchain"
AGENTS == "openai-agents"
Services == {OPENAI, LANGCHAIN}
HandleIds == 1..MaxHandles

NoHandle == [service |-> "none", enabled |-> FALSE]
NoRegistration == << >>
NoRegCall == [fn |-> "none", x |-> "none", threw |-> FALSE]
RegCall(fn, x, threw) == [fn |-> fn, x |-> x, threw |-> threw]

(* The registry as a value: the map of the services and the handles.       *)
Registry == [active |-> activeInstrumentations, handles |-> handles]

Elems(seq) == {seq[i] : i \in 1..Len(seq)}

(* The handles of integration x that are enabled.                          *)
EnabledHandles(hs, x) ==
    {h \in HandleIds : hs[h].service = x /\ hs[h].enabled}

(* const context = getAtlaContext(); context?.suppressInstrumentation      *)
Suppressed == getAtlaContext(active).suppressInstrumentation

(* if (!ATLA_INSIGHTS.configured) throw new Error("... must be configured  *)
(* before instrumenting ...")                                              *)
NotConfigured_Never == FALSE
NotConfigured == ~mConfigured

(* main.ts unregisterInstrumentations: instrumentation.disable() for each  *)
(* instrumentation tracked for the service.                                *)
DisableAll_Skip(hs, instrumentations) == hs
DisableAll(hs, instrumentations) ==
    [h \in HandleIds |->
        IF h \in Elems(instrumentations)
           THEN [hs[h] EXCEPT !.enabled = FALSE] ELSE hs[h]]

(* @opentelemetry/instrumentation registerInstrumentations: enables the    *)
(* instrumentations it is given.                                           *)
EnableAll(hs, instrumentations) ==
    [h \in HandleIds |->
        IF h \in Elems(instrumentations)
           THEN [hs[h] EXCEPT !.enabled = TRUE] ELSE hs[h]]

(* main.ts:145-156 unregisterInstrumentations(service)                     *)
unregisterInstrumentations(reg, service) ==
    IF reg.active[service] = NoRegistration
       THEN reg
       ELSE [active  |-> [reg.active EXCEPT ![service] = NoRegistration],
             handles |-> DisableAll(reg.handles, reg.active[service])]

(* main.ts:128-143 registerInstrumentations(service, instrumentations):    *)
(* the service's tracked instrumentations are unregistered first.          *)
registerInstrumentations(reg, service, instrumentations) ==
    LET un == unregisterInstrumentations(reg, service) IN
    [active  |-> [un.active EXCEPT ![service] = instrumentations],
     handles |-> EnableAll(un.handles, instrumentations)]

(* new OpenAIInstrumentation(...) / new LangChainInstrumentation(...) /    *)
(* new OpenAIAgentsProcessor(): the next handle, not yet enabled.          *)
NewHandle(hs, x) ==
    [hs EXCEPT ![nHandles + 1] = [service |-> x, enabled |-> FALSE]]

(* The body shared by instrumentOpenAI (openai/index.ts) and               *)
(* instrumentLangChain (langchain/index.ts:12-51): silent return under     *)
(* suppression, the configuration error, else a new instrumentation is     *)
(* registered for the service.  acquired is the number of disposable       *)
(* resources the caller obtains (withInstrumentedX: 1).                    *)
InstrumentService(x, acquired) ==
    /\ held[x] + acquired <= MaxHandles
    /\ IF Suppressed
          THEN /\ rRet' = RegCall("instrument", x, FALSE)
               /\ held' = [held EXCEPT ![x] = @ + acquired]
               /\ UNCHANGED <<activeInstrumentations, handles, nHandles>>
          ELSE IF NotConfigured
          THEN /\ rRet' = RegCall("instrument", x, TRUE)
               /\ UNCHANGED <<activeInstrumentations, handles, nHandles, held>>
          ELSE /\ nHandles < MaxHandles
               /\ LET created == [Registry EXCEPT
                                     !.handles = NewHandle(handles, x)]
                      reg == registerInstrumentations(created, x,
                                                      <<nHandles + 1>>)
                  IN /\ activeInstrumentations' = reg.active
                     /\ handles' = reg.handles
               /\ nHandles' = nHandles + 1
               /\ held' = [held EXCEPT ![x] = @ + acquired]
               /\ rRet' = RegCall("instrument", x, FALSE)
    /\ UNCHANGED <<metaVars, chainVars, envVars, attrVars, agentVars, wrapVars>>

(* uninstrumentOpenAI (openai/index.ts) and uninstrumentLangChain          *)
(* (langchain/index.ts:53-58): silent return under suppression, else the   *)
(* service is unregistered.  released is the number of disposable          *)
(* resources given back (Symbol.dispose: 1).                               *)
UninstrumentService(x, released) ==
    /\ held[x] >= released
    /\ held' = [held EXCEPT ![x] = @ - released]
    /\ rRet' = RegCall("uninstrument", x, FALSE)
    /\ IF Suppressed
          THEN UNCHANGED <<activeInstrumentations, handles>>
          ELSE LET reg == unregisterInstrumentations(Registry, x)
               IN /\ activeInstrumentations' = reg.active
                  /\ handles' = reg.handles
    /\ UNCHANGED <<nHandles, metaVars, chainVars, envVars, attrVars, agentVars, wrapVars>>

instrumentOpenAI == InstrumentService(OPENAI, 0)
uninstrumentOpenAI == UninstrumentService(OPENAI, 0)
withInstrumentedOpenAI == InstrumentService(OPENAI, 1)
DisposeInstrumentedOpenAI == UninstrumentService(OPENAI, 1)

instrumentLangChain == InstrumentService(LANGCHAIN, 0)
uninstrumentLangChain == UninstrumentService(LANGCHAIN, 0)
withInstrumentedLangChain == InstrumentService(LANGCHAIN, 1)
DisposeInstrumentedLangChain == UninstrumentService(LANGCHAIN, 1)

(* openai-agents/index.ts:81-109 instrumentOpenAIAgents: a new processor   *)
(* is added to the trace processors of the Agents SDK                      *)
(* (addTraceProcessor); the registry of main.ts is not involved.           *)
instrumentOpenAIAgents ==
    /\ IF Suppressed
          THEN /\ rRet' = RegCall("instrument", AGENTS, FALSE)
               /\ UNCHANGED <<handles, nHandles>>
          ELSE IF NotConfigured
          THEN /\ rRet' = RegCall("instrument", AGENTS, TRUE)
               /\ UNCHANGED <<handles, nHandles>>
          ELSE /\ nHandles < MaxHandles
               /\ handles' = EnableAll(NewHandle(handles, AGENTS),
                                       <<nHandles + 1>>)
               /\ nHandles' = nHandles + 1
               /\ rRet' = RegCall("instrument", AGENTS, FALSE)
    /\ UNCHANGED <<activeInstrumentations, held, metaVars, chainVars, envVars, attrVars, agentVars, wrapVars>>

(* runWithContext({ suppressInstrumentation: true }, fn): the code of fn   *)
(* runs between EnterSuppressed and ExitSuppressed.                        *)
EnterSuppressed ==
    /\ ~Suppressed
    /\ active' = runWithContext(active, SuppressUpdates)
    /\ UNCHANGED <<cur, status, stack, saved, base, spans, nSpans, op,
                   metaVars, regVars, envVars, attrVars, agentVars, wrapVars>>

ExitSuppressed ==
    /\ Suppressed
    /\ active' = ROOT_CONTEXT
    /\ UNCHANGED <<cur, status, stack, saved, base, spans, nSpans, op,
                   metaVars, regVars, envVars, attrVars, agentVars, wrapVars>>

----------------------------------------------------------------------------
(* The attribute mappers of the OpenAI Agents processor                    *)
(* (frameworks/openai-agents/index.ts).  A mapper is a generator: the      *)
(* attributes it yields are a sequence, and it may throw after having      *)
(* yielded some.                                                           *)

MaxItems == 4         \* items of a content list

NoOutput == [fn |-> "none", attrs |-> << >>, threw |-> FALSE]
Yielded(fn, attrs) == [fn |-> fn, attrs |-> attrs, threw |-> FALSE]
YieldedThenThrew(fn, attrs) == [fn |-> fn, attrs |-> attrs, threw |-> TRUE]

(* Content items: Responses.ResponseInputContent | ResponseContent; an     *)
(* item of type input_audio stands for the types the mapper has no branch  *)
(* for.                                                                    *)
ContentTypes ==
    {"input_text", "output_text", "refusal", "input_image", "input_file",
     "input_audio"}
ContentTexts == {"Hello", "Hi"}
ContentItems ==
    {[type |-> t, text |-> x] : t \in {"input_text", "output_text", "refusal"},
                                x \in ContentTexts}
    \cup {[type |-> t, text |-> "none"] :
             t \in {"input_image", "input_file", "input_audio"}}

RECURSIVE SeqsUpTo(_, _)
SeqsUpTo(S, n) ==
    IF n = 0 THEN {<< >>}
    ELSE LET shorter == SeqsUpTo(S, n - 1)
         IN shorter \cup {Append(q, x) : q \in {r \in shorter : Len(r) = n - 1},
                                         x \in S}

ContentLists == [kind : {"contentList"}, list : SeqsUpTo(ContentItems, MaxItems)]

(* `${prefix}${MESSAGE_CONTENTS}.${index}.${field}`                        *)
ContentAttr(index, field, value) ==
    [key |-> <<"message.contents", index, field>>, value |-> value]

(* index.ts:974-995: what one item yields at index.                        *)
ContentItemAttrs(item, index) ==
    IF item.type \in {"input_text", "output_text"}
       THEN <<ContentAttr(index, "type", "text"),
              ContentAttr(index, "text", item.text)>>
    ELSE IF item.type = "refusal"
       THEN <<ContentAttr(index, "type", "refusal"),
              ContentAttr(index, "text", item.text)>>
    ELSE << >>

(* Faulty variant: the index counts the items that yielded attributes.     *)
IndexAfter_Emitted(item, index) ==
    IF ContentItemAttrs(item, index) # << >> THEN index + 1 ELSE index

(* index.ts:996 index++ : once per item, whatever its type.                *)
IndexAfter(item, index) == index + 1

RECURSIVE ContentListFrom(_, _, _)
ContentListFrom(obj, i, index) ==
    IF i > Len(obj) THEN << >>
    ELSE ContentItemAttrs(obj[i], index)
            \o ContentListFrom(obj, i + 1, IndexAfter(obj[i], index))

(* index.ts:967-998 getAttributesFromMessageContentList: let index = 0;    *)
(* for (const item of obj) { ...; index++ }                                *)
getAttributesFromMessageContentList(obj) == ContentListFrom(obj, 1, 0)

ApplyMessageContentList ==
    /\ fIn.kind = "contentList"
    /\ fOut = NoOutput
    /\ fOut' = Yielded("getAttributesFromMessageContentList",
                       getAttributesFromMessageContentList(fIn.list))
    /\ UNCHANGED <<fIn, metaVars, chainVars, regVars, envVars, agentVars, wrapVars>>

(* JavaScript values, as far as the mappers tell them apart.               *)
Undefined == [t |-> "undefined", v |-> ""]
Null == [t |-> "null", v |-> ""]
Str(x) == [t |-> "string", v |-> x]
Bool(b) == [t |-> "boolean", v |-> IF b THEN "true" ELSE "false"]
Obj(x) == [t |-> "object", v |-> x]
Truthy(val) ==
    /\ val.t \notin {"undefined", "null"}
    /\ val # Str("")
    /\ val # Bool(FALSE)

(* An object literal: its properties in order.                             *)
Prop(k, val) == [k |-> k, val |-> val]
Literal(props) == [t |-> "literal", props |-> props]
HasProp(object, k) == \E i \in 1..Len(object.props) : object.props[i].k = k
GetProp(object, k) ==
    IF HasProp(object, k)
       THEN object.props[CHOOSE i \in 1..Len(object.props) :
                             object.props[i].k = k].val
       ELSE Undefined

(* utils.ts:12-27 safeSerialize: JSON.stringify with a replacer that keeps *)
(* null and objects and returns val ?? String(val) for the rest, so an     *)
(* undefined property is written as the string "undefined".  The text is   *)
(* represented by the value JSON.parse reads back from it.                 *)
RECURSIVE Replaced(_)
Replaced(val) ==
    IF val.t = "literal"
       THEN Literal([i \in 1..Len(val.props) |->
                        Prop(val.props[i].k, Replaced(val.props[i].val))])
    ELSE IF val.t = "undefined" THEN Str("undefined")
    ELSE val
safeSerialize(val) == [text |-> Replaced(val)]
ParseJSON(serialized) == serialized.text

MaxTools == 2         \* tools of a response

(* Responses.FunctionTool: name, description?: string | null,              *)
(* parameters: object | null, strict: boolean | null; file_search stands   *)
(* for the tools that are no function tools.                               *)
FunctionTools ==
    [type : {"function"}, name : {Str("get_weather")},
     description : {Undefined, Null, Str(""), Str("Weather of a city")},
     parameters : {Null, Obj("schema")},
     strict : {Null, Bool(TRUE), Bool(FALSE)}]
OtherTool ==
    [type |-> "file_search", name |-> Undefined, description |-> Undefined,
     parameters |-> Undefined, strict |-> Undefined]
ToolLists ==
    [kind : {"tools"},
     list : SeqsUpTo(FunctionTools \cup {OtherTool}, MaxTools) \ {<< >>}]

(* Faulty variant: the description is always written.                      *)
DescriptionProps_Always(tool) == <<Prop("description", tool.description)>>

(* index.ts:661 ...(tool.description ? { description } : {})               *)
DescriptionProps(tool) ==
    IF Truthy(tool.description)
       THEN <<Prop("description", tool.description)>> ELSE << >>

(* index.ts:657-666: the object given to safeSerialize.                    *)
ToolSchema(tool) ==
    Literal(<<Prop("type", Str("function")),
              Prop("function",
                   Literal(<<Prop("name", tool.name)>>
                           \o DescriptionProps(tool)
                           \o <<Prop("parameters", tool.parameters),
                                Prop("strict", tool.strict)>>))>>)

ToolAttr(index, value) ==
    [key |-> <<"llm.tools", index, "tool.json_schema">>, value |-> value]

RECURSIVE ToolsFrom(_, _)
ToolsFrom(tools, i) ==
    IF i > Len(tools) THEN << >>
    ELSE (IF tools[i].type = "function"
             THEN <<ToolAttr(i - 1, safeSerialize(ToolSchema(tools[i])))>>
             ELSE << >>)
         \o ToolsFrom(tools, i + 1)

(* index.ts:647-669 getAttributesFromTools: for (const [index, tool] of    *)
(* tools.entries()) if (tool.type === "function") yield ...                *)
getAttributesFromTools(tools) == ToolsFrom(tools, 1)

ApplyTools ==
    /\ fIn.kind = "tools"
    /\ fOut = NoOutput
    /\ fOut' = Yielded("getAttributesFromTools", getAttributesFromTools(fIn.list))
    /\ UNCHANGED <<fIn, metaVars, chainVars, regVars, envVars, agentVars, wrapVars>>

(* Numbers are written by their digits.                                    *)
Num(digits) == [t |-> "number", v |-> digits]
NumberOf(val) ==
    IF val = Num("0") THEN 0 ELSE IF val = Num("7") THEN 7 ELSE 12

(* Usage records: the three counters (Undefined: the property is absent)   *)
(* and whether the token-detail sub-objects are present; Null is "no       *)
(* usage".                                                                 *)
TokenCounts == {Undefined, Num("0"), Num("7")}
UsageRecords ==
    [input_tokens : TokenCounts, output_tokens : TokenCounts,
     total_tokens : {Num("12")}, details : BOOLEAN]
Usages == [kind : {"usage"}, usage : UsageRecords \cup {Null}]

TokenAttr(name, value) == [key |-> <<name>>, value |-> value]

(* index.ts:905-922 getAttributesFromUsage: the three counters are yielded *)
(* as they are; reading obj.input_tokens_details.cached_tokens throws when *)
(* the sub-object is missing.                                              *)
getAttributesFromUsage(obj) ==
    IF obj = Null THEN Yielded("getAttributesFromUsage", << >>)
    ELSE LET counters ==
                 <<TokenAttr("llm.token_count.completion", obj.output_tokens),
                   TokenAttr("llm.token_count.prompt", obj.input_tokens),
                   TokenAttr("llm.token_count.total", obj.total_tokens)>>
         IN IF obj.details
               THEN Yielded("getAttributesFromUsage",
                       counters \o
                       <<TokenAttr("llm.token_count.prompt_details.cache_read",
                                   Num("0")),
                         TokenAttr("llm.token_count.completion_details.reasoning",
                                   Num("0"))>>)
               ELSE YieldedThenThrew("getAttributesFromUsage", counters)

(* Faulty variant: a counter that is present is emitted whatever its       *)
(* value.                                                                  *)
EmitsLegacyCount_Present(val) == val # Undefined

(* index.ts:958, 961: "input_tokens" in obj && obj.input_tokens > 0        *)
EmitsLegacyCount(val) == val.t = "number" /\ NumberOf(val) > 0

(* index.ts:952-965 getAttributesFromChatCompletionsUsage                  *)
getAttributesFromChatCompletionsUsage(obj) ==
    IF obj = Null THEN Yielded("getAttributesFromChatCompletionsUsage", << >>)
    ELSE Yielded("getAttributesFromChatCompletionsUsage",
            (IF EmitsLegacyCount(obj.input_tokens)
                THEN <<TokenAttr("llm.token_count.prompt", obj.input_tokens)>>
                ELSE << >>)
            \o (IF EmitsLegacyCount(obj.output_tokens)
                   THEN <<TokenAttr("llm.token_count.completion",
                                    obj.output_tokens)>>
                   ELSE << >>))

ApplyUsage ==
    /\ fIn.kind = "usage"
    /\ fOut = NoOutput
    /\ fOut' = getAttributesFromUsage(fIn.usage)
    /\ UNCHANGED <<fIn, metaVars, chainVars, regVars, envVars, agentVars, wrapVars>>

ApplyChatCompletionsUsage ==
    /\ fIn.kind = "usage"
    /\ fOut = NoOutput
    /\ fOut' = getAttributesFromChatCompletionsUsage(fIn.usage)
    /\ UNCHANGED <<fIn, metaVars, chainVars, regVars, envVars, agentVars, wrapVars>>

----------------------------------------------------------------------------
(* The OpenAI Agents trace processor (frameworks/openai-agents/index.ts,   *)
(* class OpenAIAgentsProcessor): the events of the Agents SDK are turned   *)
(* into spans of the tracer.                                               *)

MaxOtel == 3          \* spans obtained from the tracer in one run
MaxEnds == 2          \* calls of end() followed on one span
MAX_HANDOFFS_IN_FLIGHT == 1000

TraceIds == {"trace_1", "trace_2"}
AgentSpanIds == {"span_1", "span_2"}
OtelIds == 1..MaxOtel
ToolNames == {"get_weather", "toString"}
ToolVersions == {"v1", "v2", "undescribed"}

(* tool.description of a cached tool: the text of the declaration; a tool  *)
(* declared without description and a property of Object.prototype have    *)
(* none.                                                                   *)
DescriptionOf(tool) ==
    IF tool \in {"undescribed", "prototype"} THEN "undefined" ELSE tool
AgentNames == {"triage", "billing"}

(* The properties every object literal inherits from Object.prototype.     *)
ObjectPrototypeNames == {"toString"}

(* A span of the tracer.  parent 0 is the ambient context.  afterEnd tells *)
(* that updateName, setAttribute or setStatus was called on the span after *)
(* it had been ended.  toolDescription: the tool description attribute     *)
(* ("none": not set; a version: the description of that declaration;       *)
(* "prototype": taken from a property of Object.prototype).                *)
NoOtelSpan ==
    [created |-> FALSE, parent |-> 0, ended |-> 0, afterEnd |-> FALSE,
     status |-> "unset", toolDescription |-> "none",
     description |-> "unset", nodeParent |-> "none"]

NoTools == [has |-> FALSE, tools |-> [n \in ToolNames |-> "none"]]
NoDeclarations == [n \in ToolNames |-> "none"]
NoHandoffs == [fill |-> 0, entries |-> << >>]

(* Span data (span.spanData) and the span event that carries it.           *)
(* tools: NullTools, or for each tool name the version the response        *)
(* declares ("none": not declared); usage: "null", "full" or "nodetails" (no        *)
(* token-detail sub-objects); call: the name of a function_call item of    *)
(* the response output ("none": no such item).                             *)
SpanData(type) ==
    [type |-> type, name |-> "none", tools |-> NoDeclarations,
     usage |-> "null", call |-> "none", to_agent |-> "none",
     from_agent |-> "none"]
NullTools == [n \in ToolNames |-> "null"]
Declares(name, version) == [NoDeclarations EXCEPT ![name] = version]

(* The event handled last: its arguments, whether a span of the tracer was *)
(* involved (handled) and whether the handler threw.                       *)
Handled(event, id, T, parentId, data, error, threw, handled) ==
    [event |-> event, id |-> id, T |-> T, parentId |-> parentId,
     data |-> data, error |-> error, threw |-> threw, handled |-> handled]
NoEvent ==
    Handled("none", "none", "none", "none", SpanData("none"), "null",
            FALSE, FALSE)

(* The calls on a span of the tracer.                                      *)
Touch(span) == IF span.ended > 0 THEN [span EXCEPT !.afterEnd = TRUE] ELSE span
End(span) == [span EXCEPT !.ended = @ + 1]

(* Faulty variant: the status is not recorded.                             *)
setStatus_Ignored(span, code) == Touch(span)

(* otelSpan.setStatus({ code })                                            *)
setStatus(span, code) == [Touch(span) EXCEPT !.status = code]

(* index.ts:150-158 onTraceStart: a span is started in the ambient context *)
(* and registered as the root span of the trace.                           *)
onTraceStart(T) ==
    /\ nOtel < MaxOtel
    /\ nOtel' = nOtel + 1
    /\ otel' = [otel EXCEPT ![nOtel + 1] = [NoOtelSpan EXCEPT !.created = TRUE]]
    /\ rootSpans' = [rootSpans EXCEPT ![T] = nOtel + 1]
    /\ aRet' = Handled("traceStart", "none", T, "none", SpanData("none"),
                       "null", FALSE, TRUE)
    /\ UNCHANGED <<spanMap, tokens, toolCache, reverseHandoffsMap, declared>>
    /\ UNCHANGED <<metaVars, chainVars, regVars, envVars, attrVars, wrapVars>>

(* index.ts:165-174 onTraceEnd: the root span registered for the trace is  *)
(* given status OK and ended; the tool cache of the trace is deleted.      *)
onTraceEnd(T) ==
    /\ rootSpans[T] # 0 => otel[rootSpans[T]].ended < MaxEnds
    /\ otel' = IF rootSpans[T] # 0
                  THEN [otel EXCEPT ![rootSpans[T]] = End(setStatus(@, "ok"))]
                  ELSE otel
    /\ toolCache' = [toolCache EXCEPT ![T] = NoTools]
    /\ declared' = [declared EXCEPT ![T] = NoDeclarations]
    /\ aRet' = Handled("traceEnd", "none", T, "none", SpanData("none"),
                       "null", FALSE, rootSpans[T] # 0)
    /\ UNCHANGED <<rootSpans, spanMap, tokens, reverseHandoffsMap, nOtel>>
    /\ UNCHANGED <<metaVars, chainVars, regVars, envVars, attrVars, wrapVars>>

(* index.ts:188-190: span.parentId ? this.spanMap.get(span.parentId)       *)
(*                                 : this.rootSpans.get(span.traceId);     *)
(* 0 (undefined) leaves the ambient context as the parent (192-194).       *)
ParentOf(parentId, T) ==
    IF parentId # "none" THEN spanMap[parentId] ELSE rootSpans[T]

(* index.ts:182-214 onSpanStart                                            *)
onSpanStart(id, T, parentId, startedAt) ==
    /\ IF startedAt = "null"
          THEN /\ aRet' = Handled("spanStart", id, T, parentId, SpanData("none"),
                                 "null", FALSE, FALSE)
               /\ UNCHANGED <<otel, nOtel, spanMap, tokens>>
          ELSE /\ nOtel < MaxOtel
               /\ nOtel' = nOtel + 1
               /\ otel' = [otel EXCEPT
                              ![nOtel + 1] =
                                  [NoOtelSpan EXCEPT
                                      !.created = TRUE,
                                      !.parent = ParentOf(parentId, T)]]
               /\ spanMap' = [spanMap EXCEPT ![id] = nOtel + 1]
               /\ tokens' = [tokens EXCEPT ![id] = nOtel + 1]
               /\ aRet' = Handled("spanStart", id, T, parentId, SpanData("none"),
                                 "null", FALSE, TRUE)
    /\ UNCHANGED <<rootSpans, toolCache, reverseHandoffsMap, declared>>
    /\ UNCHANGED <<metaVars, chainVars, regVars, envVars, attrVars, wrapVars>>

(* index.ts:504-506, 540-542: this.toolCache.get(traceId)?.[obj.name] on   *)
(* the plain object kept for the trace: an own property (a declared tool)  *)
(* or else a property inherited from Object.prototype.                     *)
CachedToolIn(cache, name) ==
    IF ~cache.has THEN "none"
    ELSE IF cache.tools[name] # "none" THEN cache.tools[name]
    ELSE IF name \in ObjectPrototypeNames THEN "prototype"
    ELSE "none"

(* index.ts:504, 522: tool.description ?? ""                               *)
OrEmptyString(description) ==
    IF description \in {"undefined", "null"} THEN "" ELSE description

(* index.ts:490-550: the tool description attribute of a function span or  *)
(* of a function_call item is set when the cache yields a tool.            *)
Enriched(span, cache, name) ==
    IF CachedToolIn(cache, name) # "none"
       THEN [span EXCEPT
                !.toolDescription = CachedToolIn(cache, name),
                !.description =
                    OrEmptyString(DescriptionOf(CachedToolIn(cache, name)))]
       ELSE span

(* index.ts:556-563: the tools of the response are stored under their      *)
(* names in the cache of the trace, over what was stored before.           *)
CacheTools(cache, tools) ==
    [has |-> TRUE,
     tools |-> [n \in ToolNames |->
                   IF tools[n] # "none" THEN tools[n] ELSE cache.tools[n]]]

(* The reverse handoff index: a Map in insertion order.  fill counts the   *)
(* entries inserted before those of `entries`, under keys that the events  *)
(* of this model do not use.                                               *)
HandoffSize(m) == m.fill + Len(m.entries)
HandoffIndex(m, key) ==
    IF \E i \in 1..Len(m.entries) : m.entries[i].key = key
       THEN CHOOSE i \in 1..Len(m.entries) : m.entries[i].key = key
       ELSE 0
HandoffGet(m, key) ==
    IF HandoffIndex(m, key) = 0 THEN "none"
    ELSE m.entries[HandoffIndex(m, key)].from

(* Map.set: an existing key keeps its place, a new key goes last.          *)
HandoffSet(m, key, from) ==
    IF HandoffIndex(m, key) = 0
       THEN [m EXCEPT !.entries = Append(@, [key |-> key, from |-> from])]
       ELSE [m EXCEPT !.entries[HandoffIndex(m, key)].from = from]

(* Faulty variant: the entry inserted last is deleted.                     *)
DeleteFirstKey_Last(m) ==
    IF Len(m.entries) > 0
       THEN [m EXCEPT !.entries = SubSeq(@, 1, Len(@) - 1)]
       ELSE [m EXCEPT !.fill = @ - 1]

(* index.ts:288-291: keys().next().value is deleted.                       *)
DeleteFirstKey(m) ==
    IF m.fill > 0 THEN [m EXCEPT !.fill = @ - 1]
    ELSE [m EXCEPT !.entries = Tail(@)]

(* index.ts:286-294: the loop that caps the size of the map.               *)
RECURSIVE CapHandoffs(_)
CapHandoffs(m) ==
    IF HandoffSize(m) > MAX_HANDOFFS_IN_FLIGHT
       THEN CapHandoffs(DeleteFirstKey(m))
       ELSE m

(* The state a handler leaves behind: the span of the tracer, the tool     *)
(* cache of the trace, the handoff index, and whether it threw.            *)
Outcome(span, cache, handoffs, threw) ==
    [span |-> span, cache |-> cache, handoffs |-> handoffs, threw |-> threw]

(* index.ts:236-247 with getAttributesFromResponse (552-590): the output   *)
(* attributes are set; the tools are cached (iterating obj.tools, which    *)
(* throws for null); the usage is read (which throws without the detail    *)
(* sub-objects, 914-920); then the function_call items are looked up.      *)
ResponseEnd(span, data, T) ==
    LET s1 == Touch(span)
        cache == toolCache[T]
    IN  IF data.tools = NullTools
           THEN Outcome(s1, cache, reverseHandoffsMap, TRUE)
        ELSE LET c2 == CacheTools(cache, data.tools)
             IN  IF data.usage = "nodetails"
                    THEN Outcome(s1, c2, reverseHandoffsMap, TRUE)
                 ELSE IF data.call # "none"
                    THEN Outcome(Enriched(s1, c2, data.call), c2,
                                 reverseHandoffsMap, FALSE)
                 ELSE Outcome(s1, c2, reverseHandoffsMap, FALSE)

(* index.ts:268-273 with getAttributesFromFunctionSpanData (512-550)       *)
FunctionEnd(span, data, T) ==
    Outcome(Enriched(Touch(span), toolCache[T], data.name), toolCache[T],
            reverseHandoffsMap, FALSE)

(* index.ts:281-295                                                        *)
HandoffEnd(span, data, T) ==
    Outcome(span, toolCache[T],
            CapHandoffs(HandoffSet(reverseHandoffsMap,
                                   <<data.to_agent, T>>, data.from_agent)),
            FALSE)

(* index.ts:299-300: this.reverseHandoffsMap.get(key)                      *)
ParentNode(name, T) == HandoffGet(reverseHandoffsMap, <<name, T>>)

(* index.ts:296-304: the entry is read and left in the map.                *)
AgentEnd(span, data, T) ==
    Outcome(IF ParentNode(data.name, T) # "none"
               THEN [Touch(span) EXCEPT !.nodeParent = ParentNode(data.name, T)]
               ELSE Touch(span),
            toolCache[T], reverseHandoffsMap, FALSE)

DataEnd(span, data, T) ==
    CASE data.type = "response" -> ResponseEnd(span, data, T)
      [] data.type = "function" -> FunctionEnd(span, data, T)
      [] data.type = "handoff" -> HandoffEnd(span, data, T)
      [] data.type = "agent" -> AgentEnd(span, data, T)
      [] OTHER -> Outcome(span, toolCache[T], reverseHandoffsMap, FALSE)

(* index.ts:367-377 getSpanStatus: span.error !== null, then               *)
(* span.error.message, which throws for an undefined error.                *)
SpanEnd(out, error) ==
    IF out.threw THEN out
    ELSE IF error = "undefined" THEN [out EXCEPT !.threw = TRUE]
    ELSE [out EXCEPT
             !.span = End(setStatus(@, IF error = "null" THEN "ok" ELSE "error"))]

(* The tools a response span-end declares for its trace, as the claim on   *)
(* enrichment counts them: kept per trace until the trace ends.            *)
Declare(decl, data) ==
    IF data.type = "response" /\ data.tools # NullTools
       THEN [n \in ToolNames |->
                IF data.tools[n] # "none" THEN data.tools[n] ELSE decl[n]]
       ELSE decl

(* Faulty variant: trace.deleteSpan is called on whatever tokens.get       *)
(* returns, and throws on undefined.                                       *)
DeleteSpanThrows_Unguarded(id) == tokens[id] = 0

(* index.ts:224-226: if (this.tokens.has(span.spanId)) trace.deleteSpan(   *)
(* this.tokens.get(span.spanId)): called on a context only.                *)
DeleteSpanThrows(id) == FALSE

(* index.ts:223-317 onSpanEnd                                              *)
onSpanEnd(id, T, data, error) ==
    /\ spanMap[id] # 0 => otel[spanMap[id]].ended < MaxEnds
    /\ IF spanMap[id] = 0
          THEN /\ aRet' = Handled("spanEnd", id, T, "none", data, error,
                                 DeleteSpanThrows(id), FALSE)
               /\ UNCHANGED <<otel, toolCache, reverseHandoffsMap, declared>>
          ELSE LET out == SpanEnd(DataEnd(Touch(otel[spanMap[id]]), data, T),
                                  error)
               IN  /\ otel' = [otel EXCEPT ![spanMap[id]] = out.span]
                   /\ toolCache' = [toolCache EXCEPT ![T] = out.cache]
                   /\ reverseHandoffsMap' = out.handoffs
                   /\ declared' = [declared EXCEPT ![T] = Declare(@, data)]
                   /\ aRet' = Handled("spanEnd", id, T, "none", data, error,
                                     out.threw, TRUE)
    /\ UNCHANGED <<rootSpans, spanMap, tokens, nOtel>>
    /\ UNCHANGED <<metaVars, chainVars, regVars, envVars, attrVars, wrapVars>>

----------------------------------------------------------------------------
(* getAttributesFromResponseOutput (index.ts:597-645): the output items of *)
(* a response.  An item of type reasoning stands for the types whose       *)
(* branch is empty.                                                        *)

MaxOutputItems == 4   \* output items of a response

OutputItems ==
    {[type |-> "message", name |-> "none", text |-> x] : x \in ContentTexts}
    \cup {[type |-> "function_call", name |-> n, text |-> "none"] :
             n \in {"get_weather", "search"}}
    \cup {[type |-> "custom_tool_call", name |-> "shell", text |-> "none"],
          [type |-> "reasoning", name |-> "none", text |-> "none"]}
OutputLists ==
    [kind : {"outputList"}, list : SeqsUpTo(OutputItems, MaxOutputItems)]

(* `${LLM_OUTPUT_MESSAGES}.${message_index}.${MESSAGE_ROLE}`               *)
OutputRole(message_index, role) ==
    [key |-> <<"llm.output_messages", message_index, "message.role">>,
     value |-> role]
(* `${LLM_OUTPUT_MESSAGES}.${i}.${MESSAGE_TOOL_CALLS}.${k}.${field}`       *)
OutputToolCall(message_index, toolCallIndex, field, value) ==
    [key |-> <<"llm.output_messages", message_index, "message.tool_calls",
               toolCallIndex, field>>,
     value |-> value]
(* `${LLM_OUTPUT_MESSAGES}.${i}.${MESSAGE_CONTENTS}.0.${field}`            *)
OutputContent(message_index, field, value) ==
    [key |-> <<"llm.output_messages", message_index, "message.contents", 0,
               field>>,
     value |-> value]

(* index.ts:604-631: what one item yields, given the two counters.         *)
(* A message (getAttributesFromMessage, 924-950) yields its role and its   *)
(* content; a function_call the role "assistant" and the call under        *)
(* tool_calls.{toolCallIndex}; a custom_tool_call the role and the call    *)
(* under tool_calls.0.                                                     *)
OutputItemAttrs(item, message_index, toolCallIndex) ==
    CASE item.type = "message" ->
            <<OutputRole(message_index, "assistant"),
              OutputContent(message_index, "type", "text"),
              OutputContent(message_index, "text", item.text)>>
      [] item.type = "function_call" ->
            <<OutputRole(message_index, "assistant"),
              OutputToolCall(message_index, toolCallIndex,
                             "tool_call.function.name", item.name)>>
      [] item.type = "custom_tool_call" ->
            <<OutputRole(message_index, "assistant"),
              OutputToolCall(message_index, 0,
                             "tool_call.function.name", item.name)>>
      [] OTHER -> << >>

(* Faulty variant: every item advances the message index.                  *)
MessageIndexAfter_Always(item, message_index) == message_index + 1

(* index.ts:607 message_index++ : in the message branch only.              *)
MessageIndexAfter(item, message_index) ==
    IF item.type = "message" THEN message_index + 1 ELSE message_index

(* index.ts:615 toolCallIndex++ : in the function_call branch only.        *)
ToolCallIndexAfter(item, toolCallIndex) ==
    IF item.type = "function_call" THEN toolCallIndex + 1 ELSE toolCallIndex

RECURSIVE ResponseOutputFrom(_, _, _, _)
ResponseOutputFrom(obj, i, message_index, toolCallIndex) ==
    IF i > Len(obj) THEN << >>
    ELSE OutputItemAttrs(obj[i], message_index, toolCallIndex)
            \o ResponseOutputFrom(obj, i + 1,
                                  MessageIndexAfter(obj[i], message_index),
                                  ToolCallIndexAfter(obj[i], toolCallIndex))

(* index.ts:597-645: message_index = 0, let toolCallIndex = 0, then the    *)
(* loop over the items.                                                    *)
getAttributesFromResponseOutput(obj) == ResponseOutputFrom(obj, 1, 0, 0)

ApplyResponseOutput ==
    /\ fIn.kind = "outputList"
    /\ fOut = NoOutput
    /\ fOut' = Yielded("getAttributesFromResponseOutput",
                       getAttributesFromResponseOutput(fIn.list))
    /\ UNCHANGED <<fIn, metaVars, chainVars, regVars, envVars, agentVars,
                   wrapVars>>

----------------------------------------------------------------------------
(* instrument(): wrapping a function and invoking the wrapper              *)
(* (instrumentation.ts, main.ts getTracer).                                *)

MaxWrappers == 3      \* calls of instrument()
MaxInvocations == 2   \* invocations of one wrapper

WrapperIds == 1..MaxWrappers
ConfigureError == "Atla Insights must be configured before use."

(* What a call of instrument() has produced: nothing, the decorator that   *)
(* instrument(name) returns, or the wrapper of a function.  configured     *)
(* tells whether configure had succeeded when the wrapper was made.        *)
NoWrapper ==
    [stage |-> "none", form |-> "none", configured |-> FALSE, invoked |-> 0]
NoWrapCall == [fn |-> "none", w |-> 0, threw |-> FALSE, error |-> "none"]
WrapCall(fn, w, threw, error) ==
    [fn |-> fn, w |-> w, threw |-> threw, error |-> error]

(* Faulty variant: the tracer is looked for when the wrapper is invoked.   *)
getTracerThrows_Lazy == FALSE

(* main.ts:105-110 getTracer: if (!this.tracer) throw; the tracer is set   *)
(* by configure together with `configured` (main.ts:101-102).              *)
getTracerThrows == ~mConfigured

(* instrumentFunction: const tracer = ATLA_INSIGHTS.getTracer(), then the  *)
(* wrapper (instrumentedAsync or instrumentedSync) is returned.            *)
instrumentFunction(w, form) ==
    IF getTracerThrows
       THEN /\ wRet' = WrapCall("instrumentFunction", w, TRUE, ConfigureError)
            /\ UNCHANGED <<wrappers, nWrappers>>
       ELSE /\ wRet' = WrapCall("instrumentFunction", w, FALSE, "none")
            /\ wrappers' = [wrappers EXCEPT
                               ![w] = [stage |-> "wrapper", form |-> form,
                                       configured |-> mConfigured,
                                       invoked |-> 0]]
            /\ nWrappers' = Max(nWrappers, w)

(* instrument(fn): instrumentFunction(fn, fn.name || "anonymous")          *)
InstrumentFn ==
    /\ nWrappers < MaxWrappers
    /\ instrumentFunction(nWrappers + 1, "fn")
    /\ UNCHANGED <<metaVars, chainVars, regVars, envVars, attrVars, agentVars>>

(* instrument(name): returns (target) => instrumentFunction(target, name)  *)
InstrumentName ==
    /\ nWrappers < MaxWrappers
    /\ nWrappers' = nWrappers + 1
    /\ wrappers' = [wrappers EXCEPT
                       ![nWrappers + 1] =
                           [NoWrapper EXCEPT !.stage = "decorator",
                                             !.form = "name"]]
    /\ wRet' = WrapCall("instrument", nWrappers + 1, FALSE, "none")
    /\ UNCHANGED <<metaVars, chainVars, regVars, envVars, attrVars, agentVars>>

(* instrument(name)(fn): the decorator is applied to a function.           *)
Decorate(w) ==
    /\ wrappers[w].stage = "decorator"
    /\ instrumentFunction(w, "name")
    /\ UNCHANGED <<metaVars, chainVars, regVars, envVars, attrVars, agentVars>>

(* The wrapper is invoked: tracer.startActiveSpan with the tracer obtained *)
(* when the function was wrapped.                                          *)
InvokeWrapper(w) ==
    /\ wrappers[w].stage = "wrapper"
    /\ wrappers[w].invoked < MaxInvocations
    /\ wrappers' = [wrappers EXCEPT ![w].invoked = @ + 1]
    /\ wRet' = WrapCall("wrapper", w, ~wrappers[w].configured,
                        IF wrappers[w].configured THEN "none"
                        ELSE ConfigureError)
    /\ UNCHANGED <<nWrappers, metaVars, chainVars, regVars, envVars, attrVars,
                   agentVars>>

----------------------------------------------------------------------------
InitMetaVars ==
    /\ mPhase = "start"
    /\ globalMetadata = EmptyMap
    /\ procMetadata = [kind |-> "undefined", m |-> EmptyMap]
    /\ mConfigured = FALSE
    /\ mScoped = NoScope
    /\ mSpan = NoSpanAttr
    /\ mRet = NoCall

InitAttrVars ==
    /\ fIn = [kind |-> "none"]
    /\ fOut = NoOutput

(* index.ts:111-127: the fields of a new processor.                        *)
InitProcessor ==
    /\ rootSpans = [T \in TraceIds |-> 0]
    /\ spanMap = [id \in AgentSpanIds |-> 0]
    /\ tokens = [id \in AgentSpanIds |-> 0]
    /\ toolCache = [T \in TraceIds |-> NoTools]
    /\ otel = [o \in OtelIds |-> NoOtelSpan]
    /\ nOtel = 0
    /\ declared = [T \in TraceIds |-> NoDeclarations]
    /\ aRet = NoEvent

InitWrapVars ==
    /\ wrappers = [w \in WrapperIds |-> NoWrapper]
    /\ nWrappers = 0
    /\ wRet = NoWrapCall

InitAgentVars ==
    /\ InitProcessor
    /\ reverseHandoffsMap = NoHandoffs

InitRegVars ==
    /\ activeInstrumentations = [x \in Services |-> NoRegistration]
    /\ handles = [h \in HandleIds |-> NoHandle]
    /\ nHandles = 0
    /\ held = [x \in Services |-> 0]
    /\ rRet = NoRegCall

(* A process outside a git repository, or with git tracking disabled.      *)
InitEnvVars == git = NoGit

InitChainVars ==
    /\ active = ROOT_CONTEXT
    /\ cur = 0
    /\ status = [c \in Chains |-> "idle"]
    /\ stack = [c \in Chains |-> << >>]
    /\ saved = [c \in Chains |-> ROOT_CONTEXT]
    /\ base = [c \in Chains |-> ROOT_CONTEXT]
    /\ spans = [s \in SpanIds |-> NoSpan]
    /\ nSpans = 0
    /\ op = Step

(* Call chains of a process in which configure({ token }) has run.         *)
Init ==
    /\ mInput = [kind |-> "undefined", m |-> EmptyMap]
    /\ InitMetaVars
    /\ InitChainVars
    /\ InitRegVars
    /\ InitEnvVars
    /\ InitAttrVars
    /\ InitAgentVars
    /\ InitWrapVars

(* Instrumented calls that return or throw, in interleaved chains, also    *)
(* chains of work that was started without being awaited.                  *)
Next ==
    \/ StartChain
    \/ \E c \in Chains : Detach(c)
    \/ \E c \in Chains : Await(c)
    \/ \E c \in Chains : Resume(c)
    \/ \E c \in Chains, isAsync \in BOOLEAN : CallInstrument(c, isAsync)
    \/ \E c \in Chains, e \in Errors : Throw(c, e)
    \/ \E c \in Chains : Catch(c)
    \/ \E c \in Chains : Exit(c)
    \/ \E c \in Chains : Finish(c)

(* Instrumented functions, declared async or not, whose result is a        *)
(* promise that settles later.                                             *)
NextPending ==
    \/ StartChain
    \/ \E c \in Chains : ReturnPending(c)
    \/ \E c \in Chains : Await(c)
    \/ \E c \in Chains : Resume(c)
    \/ \E c \in Chains, isAsync \in BOOLEAN : CallInstrument(c, isAsync)
    \/ \E c \in Chains, e \in Errors : Throw(c, e)
    \/ \E c \in Chains : Exit(c)
    \/ \E c \in Chains : Finish(c)

SpecPending == Init /\ [][NextPending]_vars

(* Manual spans whose function returns, throws or rejects, at top level   *)
(* and inside instrumented calls.                                          *)
NextManual ==
    \/ StartChain
    \/ \E c \in Chains : Await(c)
    \/ \E c \in Chains : Resume(c)
    \/ \E c \in Chains, isAsync \in BOOLEAN : CallInstrument(c, isAsync)
    \/ \E c \in Chains : CallStartAsCurrentSpan(c)
    \/ \E c \in Chains, e \in Errors : Throw(c, e)
    \/ \E c \in Chains : Catch(c)
    \/ \E c \in Chains : Exit(c)
    \/ \E c \in Chains : Finish(c)

SpecManual == Init /\ [][NextManual]_vars

(* Marking inside and outside instrumented calls and manual spans.         *)
NextMark ==
    \/ StartChain
    \/ \E c \in Chains : Await(c)
    \/ \E c \in Chains : Resume(c)
    \/ \E c \in Chains, isAsync \in BOOLEAN : CallInstrument(c, isAsync)
    \/ \E c \in Chains : CallStartAsCurrentSpan(c)
    \/ \E c \in Chains : Exit(c)
    \/ \E c \in Chains : Finish(c)
    \/ \E c \in Chains, value \in {SUCCESS_FAILURE, SUCCESS_SUCCESS} :
           markRootSpan(c, value)

SpecMark == Init /\ [][NextMark]_vars

(* The same, with work that is started without being awaited.              *)
NextDetach ==
    \/ NextMark
    \/ \E c \in Chains : Detach(c)

SpecDetach == Init /\ [][NextDetach]_vars

(* One call chain: scopes (experiment, metadata, suppression) around each  *)
(* other and around instrumented calls, with returns and throws.           *)
(* The state configure (main.ts:52-103) leaves when it is given metadata   *)
(* that passes validation.                                                 *)
ConfiguredWith(metadata) ==
    LET truthy == metadata.kind \notin {"null", "undefined"}
        res == validateMetadata(OrEmpty(metadata))
    IN /\ mInput = metadata
       /\ mPhase = "configured"
       /\ mConfigured = TRUE
       /\ globalMetadata = (IF truthy THEN res.out ELSE EmptyMap)
       /\ procMetadata = (IF truthy THEN res.arg ELSE metadata)
       /\ mScoped = NoScope
       /\ mSpan = NoSpanAttr
       /\ mRet = (IF truthy THEN Call("setGlobalMetadata", metadata, res)
                            ELSE NoCall)

ConfiguredMetadata ==
    {[kind |-> "undefined", m |-> EmptyMap], Object(<<PlainEntry(1)>>)}

(* One call chain in a configured process, with or without configured      *)
(* metadata, with or without git attributes.                               *)
InitScope ==
    /\ \E metadata \in ConfiguredMetadata : ConfiguredWith(metadata)
    /\ git \in {NoGit, HeadCommit}
    /\ active = ROOT_CONTEXT
    /\ cur = 1
    /\ status = [c \in Chains |-> IF c = 1 THEN "running" ELSE "idle"]
    /\ stack = [c \in Chains |-> IF c = 1 THEN <<TopFrame>> ELSE << >>]
    /\ saved = [c \in Chains |-> ROOT_CONTEXT]
    /\ base = [c \in Chains |-> ROOT_CONTEXT]
    /\ spans = [s \in SpanIds |-> NoSpan]
    /\ nSpans = 0
    /\ op = Step
    /\ InitRegVars
    /\ InitAttrVars
    /\ InitAgentVars
    /\ InitWrapVars

NextScope ==
    \/ \E c \in Chains : Await(c)
    \/ \E c \in Chains : Resume(c)
    \/ \E c \in Chains, isAsync \in BOOLEAN : CallInstrument(c, isAsync)
    \/ \E c \in Chains, options \in ExperimentOptions :
           CallRunExperiment(c, options)
    \/ \E c \in Chains, metadata \in ChainMetadata :
           CallWithMetadata(c, metadata)
    \/ \E c \in Chains : CallSuppressed(c)
    \/ \E c \in Chains, e \in Errors : Throw(c, e)
    \/ \E c \in Chains : Exit(c)
    \/ \E c \in Chains : Finish(c)

SpecScope == InitScope /\ [][NextScope]_vars

(* Interleaved call chains, each with scopes and instrumented calls of its *)
(* own, and marks made where a root span is in the context.                *)
NextCtx ==
    \/ StartChain
    \/ \E c \in Chains : Await(c)
    \/ \E c \in Chains : Resume(c)
    \/ \E c \in Chains : CallInstrument(c, TRUE)
    \/ \E c \in Chains : CallRunExperiment(c, NamedExperiment)
    \/ \E c \in Chains, metadata \in ChainMetadata :
           CallWithMetadata(c, metadata)
    \/ \E c \in Chains : CallSuppressed(c)
    \/ \E c \in Chains : Exit(c)
    \/ \E c \in Chains : Finish(c)
    \/ \E c \in Chains :
           /\ getAtlaContext(active).rootSpan # 0
           /\ markRootSpan(c, SUCCESS_SUCCESS)

SpecCtx == Init /\ [][NextCtx]_vars

Spec == Init /\ [][Next]_vars

(* The metadata write paths, for every metadata object of the family.      *)
InitMeta ==
    /\ mInput \in InputFamily
    /\ InitMetaVars
    /\ InitChainVars
    /\ InitRegVars
    /\ InitEnvVars
    /\ InitAttrVars
    /\ InitAgentVars
    /\ InitWrapVars

NextMeta ==
    \/ MConfigure
    \/ MStartRootSpan
    \/ \E u \in UpdateFamily : MSetMetadata(u)
    \/ MClearMetadata
    \/ \E u \in UpdateFamily : MWithMetadata(u)
    \/ MWithMetadataDone

SpecMeta == InitMeta /\ [][NextMeta]_vars

(* The integrations' instrument / uninstrument functions in a process      *)
(* whose configure call succeeds (no metadata) or fails (metadata that is  *)
(* an array), inside and outside suppressed scopes.                        *)
InitReg ==
    /\ mInput \in {x \in NonObjects : x.kind \in {"undefined", "array"}}
    /\ InitMetaVars
    /\ InitChainVars
    /\ InitRegVars
    /\ InitEnvVars
    /\ InitAttrVars
    /\ InitAgentVars
    /\ InitWrapVars

NextReg ==
    \/ MConfigure
    \/ EnterSuppressed
    \/ ExitSuppressed
    \/ instrumentOpenAI
    \/ uninstrumentOpenAI
    \/ withInstrumentedOpenAI
    \/ DisposeInstrumentedOpenAI
    \/ instrumentLangChain
    \/ uninstrumentLangChain
    \/ withInstrumentedLangChain
    \/ DisposeInstrumentedLangChain
    \/ instrumentOpenAIAgents

SpecReg == InitReg /\ [][NextReg]_vars

(* The attribute mappers, each applied to every input of its family.       *)
InitAttributes ==
    /\ InitMetaVars
    /\ mInput = [kind |-> "undefined", m |-> EmptyMap]
    /\ InitChainVars
    /\ InitRegVars
    /\ InitEnvVars
    /\ InitAgentVars
    /\ InitWrapVars
    /\ fIn \in ContentLists \cup ToolLists \cup Usages
    /\ fOut = NoOutput

NextAttributes ==
    \/ ApplyMessageContentList
    \/ ApplyTools
    \/ ApplyUsage
    \/ ApplyChatCompletionsUsage

SpecAttributes == InitAttributes /\ [][NextAttributes]_vars

(* The span events of the OpenAI Agents SDK, handled in any order.  The    *)
(* SDK gives every trace and every span an id of its own, so a trace or a  *)
(* span starts once; it may end more than once.                            *)
ParentIds == AgentSpanIds \cup {"none"}
SpanErrors == {"null", "undefined", "error"}
NewTraces == {T \in TraceIds : rootSpans[T] = 0}
NewSpans == {id \in AgentSpanIds : spanMap[id] = 0}
LifecycleTraces == {"trace_1"}
LifecycleData ==
    {SpanData("custom"),
     [SpanData("response") EXCEPT !.tools = NullTools],
     [SpanData("response") EXCEPT !.usage = "nodetails"],
     [SpanData("response") EXCEPT !.usage = "full"]}

NextAgents ==
    \/ \E T \in NewTraces \cap LifecycleTraces : onTraceStart(T)
    \/ \E T \in LifecycleTraces : onTraceEnd(T)
    \/ \E id \in NewSpans, T \in LifecycleTraces, parentId \in ParentIds,
          startedAt \in {"null", "set"} :
          onSpanStart(id, T, parentId, startedAt)
    \/ \E id \in AgentSpanIds, T \in LifecycleTraces, data \in LifecycleData,
          error \in SpanErrors :
          onSpanEnd(id, T, data, error)

SpecAgents == Init /\ [][NextAgents]_vars

(* Responses that declare a tool or carry function_call items, and         *)
(* function spans, in two traces that end and go on.                       *)
ToolData ==
    {[SpanData("response") EXCEPT
         !.tools = Declares("get_weather", v), !.usage = "full"] :
         v \in ToolVersions}
    \cup {[SpanData("response") EXCEPT !.usage = "full", !.call = n] :
              n \in ToolNames}
    \cup {[SpanData("function") EXCEPT !.name = n] : n \in ToolNames}

NextToolCache ==
    \/ \E T \in TraceIds : onTraceEnd(T)
    \/ \E id \in NewSpans, T \in TraceIds :
          onSpanStart(id, T, "none", "set")
    \/ \E id \in AgentSpanIds, T \in TraceIds, data \in ToolData :
          onSpanEnd(id, T, data, "null")

SpecToolCache == Init /\ [][NextToolCache]_vars

(* Handoff and agent spans, in a processor whose handoff index is empty,   *)
(* one short of its cap, or full.                                          *)
HandoffFills == {0, MAX_HANDOFFS_IN_FLIGHT - 1, MAX_HANDOFFS_IN_FLIGHT}
HandoffTraces == {"trace_1"}
HandoffData ==
    {[SpanData("handoff") EXCEPT !.to_agent = a, !.from_agent = b] :
         a \in AgentNames, b \in AgentNames}
    \cup {[SpanData("agent") EXCEPT !.name = a] : a \in AgentNames}

InitHandoff ==
    /\ mInput = [kind |-> "undefined", m |-> EmptyMap]
    /\ InitMetaVars
    /\ InitChainVars
    /\ InitRegVars
    /\ InitEnvVars
    /\ InitAttrVars
    /\ InitProcessor
    /\ InitWrapVars
    /\ reverseHandoffsMap \in
           {[fill |-> f, entries |-> << >>] : f \in HandoffFills}

NextHandoff ==
    \/ \E id \in NewSpans, T \in HandoffTraces :
          onSpanStart(id, T, "none", "set")
    \/ \E id \in AgentSpanIds, T \in HandoffTraces, data \in HandoffData :
          onSpanEnd(id, T, data, "null")

SpecHandoff == InitHandoff /\ [][NextHandoff]_vars

(* Functions wrapped and invoked before and after configure, which may     *)
(* fail on its metadata.                                                   *)
InitWrap ==
    /\ mInput \in {[kind |-> "undefined", m |-> EmptyMap],
                   [kind |-> "array", m |-> EmptyMap], Object(EmptyMap)}
    /\ InitMetaVars
    /\ InitChainVars
    /\ InitRegVars
    /\ InitEnvVars
    /\ InitAttrVars
    /\ InitAgentVars
    /\ InitWrapVars

NextWrap ==
    \/ MConfigure
    \/ InstrumentFn
    \/ InstrumentName
    \/ \E w \in WrapperIds : Decorate(w)
    \/ \E w \in WrapperIds : InvokeWrapper(w)

SpecWrap == InitWrap /\ [][NextWrap]_vars

(* The response-output mapper applied to every list of output items.       *)
InitOutput ==
    /\ InitMetaVars
    /\ mInput = [kind |-> "undefined", m |-> EmptyMap]
    /\ InitChainVars
    /\ InitRegVars
    /\ InitEnvVars
    /\ InitAgentVars
    /\ InitWrapVars
    /\ fIn \in OutputLists
    /\ fOut = NoOutput

NextOutput == ApplyResponseOutput

SpecOutput == InitOutput /\ [][NextOutput]_vars

----------------------------------------------------------------------------
(* Properties of metadata validation and of the metadata write paths       *)
(* (checked under SpecMeta).                                               *)

WithinLimits(m) ==
    /\ Len(m) <= MAX_METADATA_FIELDS
    /\ \A i \in 1..Len(m) :
          /\ m[i].k.n <= MAX_METADATA_KEY_CHARS
          /\ m[i].v.str
          /\ m[i].v.n <= MAX_METADATA_VALUE_CHARS

FirstFields(m) ==
    {truncateValue(m[i].k, MAX_METADATA_KEY_CHARS) :
        i \in 1..Min(Len(m), MAX_METADATA_FIELDS)}

Validated == mRet.fn # "none" /\ ~mRet.threw

(* C9: every mapping returned by validateMetadata is string-to-string,     *)
(* has at most 25 fields, keys of at most 40 and values of at most 100     *)
(* characters, and when the input has more than 25 fields the fields kept  *)
(* are its first 25 in insertion order.                                    *)
C9_ValidatedKeepsFirstFieldsWithinLimits ==
    Validated =>
        /\ WithinLimits(mRet.out)
        /\ Len(mRet.inp.m) > MAX_METADATA_FIELDS =>
               KeysOf(mRet.out) = FirstFields(mRet.inp.m)

(* The part of C9 that the code does satisfy: the limits themselves.       *)
ValidatedWithinLimits == Validated => WithinLimits(mRet.out)

(* C10: every value written to the span's metadata attribute (by the       *)
(* root-span start hook, setMetadata or clearMetadata) serializes a        *)
(* string-to-string mapping within the validation limits.                  *)
C10_WrittenMetadataWithinLimits ==
    mSpan.hasMeta => WithinLimits(JSONparse(mSpan.meta))

(* A step of setMetadata that wrote the attribute.                         *)
SetsMetadata ==
    /\ mSpan.started
    /\ mRet'.fn = "setMetadata" /\ ~mRet'.threw
    /\ mSpan'.writer = "setMetadata"
    /\ mScoped' = mScoped
    /\ <<mSpan, mRet>>' # <<mSpan, mRet>>

(* C11: after setMetadata(u) getMetadata() resolves to the merged metadata *)
(* that was written to the span, and a setMetadata that follows another    *)
(* one in the same scope writes a value that has the keys of the earlier   *)
(* one too.                                                                *)
C11_SetMetadataPersistsInScope ==
    [][SetsMetadata =>
          /\ getMetadata' = JSONparse(mSpan'.meta)
          /\ (mRet.fn = "setMetadata" /\ ~mRet.threw
                /\ mSpan.writer = "setMetadata" /\ mSpan.scope = mScoped)
             => KeysOf(JSONparse(mSpan.meta))
                   \subseteq KeysOf(JSONparse(mSpan'.meta))]_vars

(* What the code does: the value written is the merge of what getMetadata  *)
(* resolved to before the call with the validated update, and what         *)
(* getMetadata resolves to is not changed by the call.                     *)
SetMetadataWritesMergeOnly ==
    [][SetsMetadata =>
          /\ JSONparse(mSpan'.meta) = SpreadInto(getMetadata, mRet'.out)
          /\ getMetadata' = getMetadata]_vars

(* A step of clearMetadata with an active span.                            *)
ClearsMetadata ==
    /\ mSpan.started
    /\ mSpan'.writer = "clearMetadata"
    /\ mSpan' # mSpan

(* C12: after clearMetadata() in a scope that has scoped metadata,         *)
(* getMetadata() resolves to the global metadata and the metadata          *)
(* attribute of the active span is the serialized global metadata.         *)
C12_ClearMetadataFallsBackToGlobal ==
    [][(ClearsMetadata /\ mScoped # NoScope) =>
          /\ getMetadata' = globalMetadata
          /\ mSpan'.meta = JSONstringify(globalMetadata)]_vars

(* What the code does: the span is stamped with the global metadata, and   *)
(* what getMetadata resolves to is not changed by the call.                *)
ClearMetadataRestampsOnly ==
    [][ClearsMetadata =>
          /\ mSpan'.meta = JSONstringify(globalMetadata)
          /\ getMetadata' = getMetadata]_vars

(* C13: on every write path null or undefined metadata is no metadata (no  *)
(* error, the result is the empty mapping); a call is rejected only for    *)
(* input that is no mapping, such as an array or a primitive.              *)
C13_NullMetadataIsNoMetadata ==
    /\ mPhase = "failed" => mInput.kind \in {"array", "string"}
    /\ mRet.fn # "none" =>
          /\ mRet.threw <=> mRet.inp.kind \in {"array", "string"}
          /\ mRet.inp.kind \in {"null", "undefined"} => mRet.out = EmptyMap

(* What the code does: configure and setGlobalMetadata take null and       *)
(* undefined as no metadata; setMetadata and withMetadata reject           *)
(* everything that is not an object, null and undefined included.          *)
NullMetadataByPath ==
    /\ mPhase = "failed" => mInput.kind \in {"array", "string"}
    /\ mRet.fn = "setGlobalMetadata" =>
          (mRet.threw <=> mRet.inp.kind \in {"array", "string"})
    /\ mRet.fn \in {"setMetadata", "withMetadata"} =>
          (mRet.threw <=> mRet.inp.kind # "object")

----------------------------------------------------------------------------
(* Properties of the instrumentation registry (checked under SpecReg).     *)

(* A step that is a call of instrumentX / withInstrumentedX.               *)
InstrumentCall ==
    /\ rRet'.fn = "instrument"
    /\ <<regVars, envVars, attrVars, agentVars, wrapVars>>' # <<regVars, envVars, attrVars, agentVars, wrapVars>>
(* A step that is a call of uninstrumentX or the release of a resource.    *)
UninstrumentCall ==
    /\ rRet'.fn = "uninstrument"
    /\ <<regVars, envVars, attrVars, agentVars, wrapVars>>' # <<regVars, envVars, attrVars, agentVars, wrapVars>>

(* C14: while configure has not completed successfully, every call of      *)
(* instrumentOpenAI, instrumentLangChain or instrumentOpenAIAgents throws  *)
(* the configuration error and registers nothing.                          *)
C14_UnconfiguredInstrumentThrows ==
    [][(InstrumentCall /\ ~mConfigured) =>
          /\ rRet'.threw
          /\ UNCHANGED <<activeInstrumentations, handles, nHandles>>]_vars

(* C14 as the code has it: the suppression flag is read before the         *)
(* configuration check, so an unconfigured call throws exactly when the    *)
(* ambient context is not suppressed; both ways nothing is registered.     *)
C14_UnconfiguredInstrumentThrowsUnlessSuppressed ==
    [][(InstrumentCall /\ ~mConfigured) =>
          /\ rRet'.threw <=> ~Suppressed
          /\ UNCHANGED <<activeInstrumentations, handles, nHandles>>]_vars

C14_Witness ==
    /\ mPhase = "failed"
    /\ ~mConfigured
    /\ rRet = RegCall("instrument", AGENTS, TRUE)
    /\ ~Suppressed
    /\ nHandles = 0

(* C15: two consecutive instrumentX() calls leave the registrations one    *)
(* call leaves: after a call that instruments X there is exactly one       *)
(* enabled handle (instrumentation or processor) for X.                    *)
C15_ReinstrumentLeavesOneHandle ==
    [][(InstrumentCall /\ mConfigured /\ ~Suppressed) =>
          Cardinality(EnabledHandles(handles', rRet'.x)) = 1]_vars

(* What holds: the services that go through the registry of main.ts have   *)
(* one enabled handle, the one the registry tracks.                        *)
ReinstrumentedServiceHasOneHandle ==
    [][(InstrumentCall /\ mConfigured /\ ~Suppressed
          /\ rRet'.x \in Services) =>
          /\ EnabledHandles(handles', rRet'.x) = {nHandles'}
          /\ activeInstrumentations'[rRet'.x] = <<nHandles'>>]_vars

(* C16: after uninstrumentX() or the release of a withInstrumentedX()      *)
(* resource the registry holds no active instrumentation for X and every   *)
(* handle ever registered for X is disabled; unregistering a service that  *)
(* has no registration changes nothing.                                    *)
C16_UninstrumentDisablesEverything ==
    [][UninstrumentCall =>
          /\ activeInstrumentations'[rRet'.x] = NoRegistration
          /\ EnabledHandles(handles', rRet'.x) = {}
          /\ activeInstrumentations[rRet'.x] = NoRegistration
                => UNCHANGED <<activeInstrumentations, handles, nHandles>>]_vars

(* C16 as the code has it: the property of the calls made outside a        *)
(* suppressed scope; a suppressed call returns without touching the        *)
(* registry.                                                               *)
C16_UninstrumentDisablesEverythingUnlessSuppressed ==
    [][UninstrumentCall =>
          /\ ~Suppressed =>
                /\ activeInstrumentations'[rRet'.x] = NoRegistration
                /\ EnabledHandles(handles', rRet'.x) = {}
          /\ (Suppressed \/ activeInstrumentations[rRet'.x] = NoRegistration)
                => UNCHANGED <<activeInstrumentations, handles, nHandles>>]_vars

C16_Witness ==
    /\ rRet = RegCall("uninstrument", OPENAI, FALSE)
    /\ ~Suppressed
    /\ activeInstrumentations[OPENAI] = NoRegistration
    /\ Cardinality({h \in HandleIds : handles[h].service = OPENAI}) = 2
    /\ EnabledHandles(handles, OPENAI) = {}
    /\ EnabledHandles(handles, LANGCHAIN) # {}

----------------------------------------------------------------------------
(* Observers over the calls in progress.                                   *)

HoldsSpan(s) ==
    \E c \in Chains : \E i \in 1..Len(stack[c]) : stack[c][i].span = s

HoldersOf(s) ==
    {<<c, i>> \in Chains \X (1..MaxCalls + 1) :
        i <= Len(stack[c]) /\ stack[c][i].span = s}

IsMark(o) == o \in {"markSuccess", "markFailure"}
MarkValue(o) == IF o = "markSuccess" THEN SUCCESS_SUCCESS ELSE SUCCESS_FAILURE

(* The call on top of chain c completes in this step.                      *)
Completes(c) ==
    /\ cur = c
    /\ Len(stack[c]) > 1
    /\ Len(stack'[c]) = Len(stack[c]) - 1

(* A call is pushed on chain c in this step.                               *)
Calls(c) ==
    /\ cur = c
    /\ Len(stack'[c]) = Len(stack[c]) + 1

(* The span of the outermost instrumented call of the chain: inherited     *)
(* from the code that detached the chain, else the first span on the stack.*)
SpanFrames(c) == {i \in 1..Len(stack[c]) : stack[c][i].span # 0}

OutermostSpan(c) ==
    IF base[c].atla.rootSpan # 0 THEN base[c].atla.rootSpan
    ELSE IF SpanFrames(c) = {} THEN 0
    ELSE stack[c][CHOOSE i \in SpanFrames(c) :
                     \A j \in SpanFrames(c) : i <= j].span

----------------------------------------------------------------------------
(* Properties of instrumented calls and of marking.                        *)

(* Every invocation in progress holds an open span of its own, and the     *)
(* span of every other invocation has been ended exactly once.             *)
SpansMatchInvocations ==
    /\ \A c \in Chains : \A i \in 1..Len(stack[c]) :
          (stack[c][i].kind = "instrument"
             /\ ~getAtlaContext(stack[c][i].entry).suppressInstrumentation)
          => /\ stack[c][i].span # 0
             /\ spans[stack[c][i].span].by = "instrument"
             /\ Cardinality(HoldersOf(stack[c][i].span)) = 1
    /\ \A s \in SpanIds :
          (spans[s].started /\ spans[s].by = "instrument")
          => spans[s].ended = (IF HoldsSpan(s) THEN 0 ELSE 1)
    /\ \A s \in SpanIds : spans[s].started <=> s <= nSpans

(* C1: every non-suppressed invocation of an instrumented function starts  *)
(* exactly one span, its own; while the invocation is in progress the span *)
(* is open, its completion ends the span, and the span of a completed      *)
(* invocation has been ended exactly once, also with several invocations   *)
(* in flight.                                                              *)
C1_OneSpanEndedOncePerInvocation ==
    /\ []SpansMatchInvocations
    /\ [][\A c \in Chains :
            /\ (Calls(c)
                  /\ stack'[c][Len(stack'[c])].kind = "instrument"
                  /\ ~getAtlaContext(active).suppressInstrumentation)
               => /\ nSpans' = nSpans + 1
                  /\ stack'[c][Len(stack'[c])].span = nSpans'
            /\ (Completes(c) /\ Top(c).kind = "instrument" /\ Top(c).span # 0)
               => spans'[Top(c).span].ended = 1]_vars

C1_Witness ==
    \E s1, s2 \in SpanIds :
        /\ s1 # s2
        /\ spans[s1].by = "instrument" /\ spans[s2].by = "instrument"
        /\ spans[s1].ended = 1
        /\ HoldsSpan(s2)
        /\ \E c \in Chains : status[c] = "suspended" /\ Len(stack[c]) > 1

C3_RootSpanIsOutermost ==
    /\ [](\A c \in Chains :
            (cur = c /\ status[c] = "running")
            => active.atla.rootSpan = OutermostSpan(c))
    /\ [][IsMark(op') /\ cur # 0 =>
            /\ \A s \in SpanIds :
                  spans'[s].success # spans[s].success
                  => s = OutermostSpan(cur)
            /\ (OutermostSpan(cur) # 0
                  /\ spans[OutermostSpan(cur)].ended = 0)
               => spans'[OutermostSpan(cur)].success = MarkValue(op')]_vars

C3_Witness ==
    \E c \in Chains :
        /\ cur = c
        /\ Len(stack[c]) = 3
        /\ stack[c][2].span # 0 /\ stack[c][3].span # 0
        /\ op = "markSuccess"
        /\ spans[stack[c][2].span].success = SUCCESS_SUCCESS
        /\ spans[stack[c][3].span].success = Absent

C8_RootOutcomeIsLatestMark ==
    \A s \in SpanIds :
        (spans[s].started /\ spans[s].parent = 0)
        => /\ spans[s].success \in
                  {SUCCESS_UNSET, SUCCESS_FAILURE, SUCCESS_SUCCESS}
           /\ spans[s].success = spans[s].marked

(* What the code does satisfy: the outcome of a root span is -1, 0 or 1,   *)
(* and it is the latest mark of its trace as long as the span is open.     *)
OpenRootOutcomeIsLatestMark ==
    \A s \in SpanIds :
        (spans[s].started /\ spans[s].parent = 0)
        => /\ spans[s].success \in
                  {SUCCESS_UNSET, SUCCESS_FAILURE, SUCCESS_SUCCESS}
           /\ spans[s].ended = 0 => spans[s].success = spans[s].marked

----------------------------------------------------------------------------
(* Properties of the scoped context.                                       *)

FramesOfKind(c, kind) ==
    {i \in 1..Len(stack[c]) : stack[c][i].kind = kind}

Innermost(S) == CHOOSE i \in S : \A j \in S : j <= i

(* What a chain started from the event loop should read, told from the     *)
(* calls it has in progress alone.                                         *)
ExperimentInScope(c) ==
    IF FramesOfKind(c, "runExperiment") = {} THEN NoExperiment
    ELSE stack[c][Innermost(FramesOfKind(c, "runExperiment"))].experiment

MetadataInScope(c) ==
    IF FramesOfKind(c, "withMetadata") = {} THEN NoScopedMetadata
    ELSE stack[c][Innermost(FramesOfKind(c, "withMetadata"))].meta

SuppressionInScope(c) == FramesOfKind(c, "suppress") # {}

OwnRootSpan(c) ==
    IF SpanFrames(c) = {} THEN 0
    ELSE stack[c][CHOOSE i \in SpanFrames(c) :
                     \A j \in SpanFrames(c) : i <= j].span

(* C4: the updates of runWithContext are ambient only while fn runs: inside *)
(* nested runExperiment and withMetadata scopes the innermost values are   *)
(* read, and when a call completes, by return or by throw, the ambient     *)
(* context is again the one its caller had before the call.                *)
C4_ScopedContextNestsAndIsRestored ==
    /\ [](\A c \in Chains :
            (cur = c /\ status[c] = "running")
            => /\ getAtlaContext(active).experiment = ExperimentInScope(c)
               /\ active.meta = MetadataInScope(c))
    /\ [][\A c \in Chains :
            Completes(c) => active' = Top(c).entry]_vars

C4_Witness ==
    \E c \in Chains :
        /\ cur = c
        /\ Len(stack[c]) = 3
        /\ stack[c][2].kind = "runExperiment"
        /\ stack[c][3].kind = "runExperiment"
        /\ stack[c][2].experiment # stack[c][3].experiment
        /\ stack[c][3].err \in Errors
        /\ getAtlaContext(active).experiment = stack[c][3].experiment

(* C5: a chain that runs while another chain is suspended reads its own    *)
(* rootSpan, experiment, metadata and suppression flag, and its mark       *)
(* changes the outcome of its own root span only.                          *)
C5_InterleavedChainsAreIsolated ==
    /\ [](\A c \in Chains :
            (cur = c /\ status[c] = "running"
               /\ \E d \in Chains \ {c} : status[d] = "suspended")
            => /\ getAtlaContext(active).rootSpan = OwnRootSpan(c)
               /\ getAtlaContext(active).experiment = ExperimentInScope(c)
               /\ active.meta = MetadataInScope(c)
               /\ getAtlaContext(active).suppressInstrumentation
                     = SuppressionInScope(c))
    /\ [][(IsMark(op') /\ cur # 0
             /\ \E d \in Chains \ {cur} : status[d] = "suspended")
          => \A s \in SpanIds :
                spans'[s].success # spans[s].success
                => /\ s = OwnRootSpan(cur)
                   /\ spans'[s].success = MarkValue(op')]_vars

C5_Witness ==
    \E c, d \in Chains :
        /\ c # d
        /\ cur = c
        /\ status[d] = "suspended"
        /\ op = "markSuccess"
        /\ OwnRootSpan(c) # 0 /\ OwnRootSpan(d) # 0
        /\ spans[OwnRootSpan(c)].success = SUCCESS_SUCCESS
        /\ OwnRootSpan(c) # OwnRootSpan(d)
        /\ spans[OwnRootSpan(d)].success = SUCCESS_UNSET

(* C6: with suppressInstrumentation set in the context, a call of an       *)
(* instrumented function starts no span and leaves the context as the      *)
(* caller has it, and its completion changes no span and hands the result  *)
(* or error to the caller as it is.                                        *)
C6_SuppressedCallsPassThrough ==
    [][\A c \in Chains :
          /\ (Calls(c)
                /\ stack'[c][Len(stack'[c])].kind = "instrument"
                /\ getAtlaContext(active).suppressInstrumentation)
             => /\ spans' = spans
                /\ nSpans' = nSpans
                /\ active' = active
          /\ (Completes(c)
                /\ Top(c).kind = "instrument"
                /\ getAtlaContext(Top(c).entry).suppressInstrumentation)
             => /\ spans' = spans
                /\ stack'[c][Len(stack'[c])].err = Top(c).err]_vars

C6_Witness ==
    \E c \in Chains :
        /\ cur = c
        /\ Len(stack[c]) = 3
        /\ stack[c][2].kind = "suppress"
        /\ stack[c][3].kind = "instrument"
        /\ stack[c][3].err \in Errors
        /\ nSpans = 0
        /\ getAtlaContext(active).rootSpan = 0

----------------------------------------------------------------------------
(* Properties of the start hook (checked under SpecScope).                 *)

(* C17: a span started with a parent receives nothing from the start hook: *)
(* no git attribute, no outcome, no environment or experiment attribute,   *)
(* no metadata attribute.                                                  *)
C17_ChildSpanReceivesNothing ==
    \A s \in SpanIds :
        (spans[s].started /\ spans[s].parent # 0) =>
            /\ spans[s].git = NoGit
            /\ spans[s].success = Absent
            /\ spans[s].environment = "none"
            /\ spans[s].experimentName = "none"
            /\ spans[s].experimentDescription = "none"
            /\ ~spans[s].metadata.has

(* What holds: a span with a parent receives the git attributes and        *)
(* nothing else.                                                           *)
ChildSpanReceivesGitOnly ==
    \A s \in SpanIds :
        (spans[s].started /\ spans[s].parent # 0) =>
            /\ spans[s].git = git
            /\ spans[s].success = Absent
            /\ spans[s].environment = "none"
            /\ spans[s].experimentName = "none"
            /\ spans[s].experimentDescription = "none"
            /\ ~spans[s].metadata.has

(* A step in which span s is started as a root span.                       *)
StartsRootSpan(s) ==
    /\ ~spans[s].started
    /\ spans'[s].started
    /\ spans'[s].parent = 0

(* C18: a root span started while an experiment is in the ambient context  *)
(* (inside the function given to runExperiment, also after suspension      *)
(* points) carries environment "dev", the experiment's name and its        *)
(* description if and only if one was given; a root span started outside   *)
(* runExperiment carries none of the three; the attributes stay.           *)
C18_RootSpanCarriesExperiment ==
    [][\A s \in SpanIds :
          /\ StartsRootSpan(s) =>
                LET experiment == ExperimentInScope(cur) IN
                /\ spans'[s].environment =
                      IF experiment # NoExperiment THEN "dev" ELSE "none"
                /\ spans'[s].experimentName = experiment.name
                /\ spans'[s].experimentDescription = experiment.description
          /\ spans[s].started =>
                /\ spans'[s].environment = spans[s].environment
                /\ spans'[s].experimentName = spans[s].experimentName
                /\ spans'[s].experimentDescription =
                      spans[s].experimentDescription]_vars

C18_Witness ==
    /\ \E s \in SpanIds :
          /\ spans[s].started /\ spans[s].parent = 0
          /\ spans[s].environment = "dev"
          /\ spans[s].experimentName = GeneratedId
          /\ spans[s].experimentDescription = "text"
    /\ \E s \in SpanIds :
          /\ spans[s].started /\ spans[s].parent = 0
          /\ spans[s].environment = "none"

----------------------------------------------------------------------------
(* Properties of the spans of asynchronous invocations (checked under      *)
(* SpecPending).                                                           *)

EndsIn(s) == spans[s].ended = 0 /\ spans'[s].ended > 0

(* The continuation d settles in this step, rejected with error e.         *)
RejectsWith(d, e) ==
    /\ stack[d] # << >>
    /\ stack'[d] = << >>
    /\ stack[d][1].err = e

(* Error e is in the log of the span, before the span's end.               *)
RecordedBeforeEnd(span, e) ==
    \E i \in 1..Len(span.log) :
        /\ span.log[i] = e
        /\ \A j \in 1..i : span.log[j] # "end"

(* C19: for every function wrapped by instrument() whose invocation        *)
(* returns a pending asynchronous result, declared async or not, the span  *)
(* is not ended before that result settles, and a rejection is recorded on *)
(* the span before the span ends.                                          *)
C19_SpanOutlivesPendingResult ==
    /\ [][\A s \in SpanIds : EndsIn(s) => PendingResultOf(s) = {}]_vars
    /\ [][\A d \in Chains : \A e \in Errors :
             (RejectsWith(d, e) /\ stack[d][1].settles # 0)
             => RecordedBeforeEnd(spans'[stack[d][1].settles], e)]_vars
    /\ [][\A c \in Chains : \A e \in Errors :
             (Completes(c) /\ Top(c).kind = "instrument" /\ Top(c).span # 0
                /\ Top(c).err = e)
             => RecordedBeforeEnd(spans'[Top(c).span], e)]_vars

(* What holds: the span of a function declared async ends when the         *)
(* invocation completes, with its rejection recorded.                      *)
DeclaredAsyncSpanEndsAtSettlement ==
    [][\A c \in Chains :
          (Completes(c) /\ Top(c).kind = "instrument" /\ Top(c).span # 0
             /\ Top(c).async)
          => /\ EndsIn(Top(c).span)
             /\ PendingResultOf(Top(c).span) = {}
             /\ Top(c).err # NoErr
                   => RecordedBeforeEnd(spans'[Top(c).span], Top(c).err)]_vars

----------------------------------------------------------------------------
(* Properties of startAsCurrentSpan (checked under SpecManual).            *)

(* The call of startAsCurrentSpan on top of chain c completes.             *)
CompletesManual(c) ==
    /\ Completes(c)
    /\ Top(c).kind = "startAsCurrentSpan"

(* C20: when the function given to startAsCurrentSpan throws or rejects,   *)
(* the exception is recorded on the span, the span is then ended exactly   *)
(* once and the caller receives the same error; when the function          *)
(* completes normally the span is ended exactly once and the caller        *)
(* receives no error.                                                      *)
C20_ManualSpanRecordsThenEnds ==
    [][\A c \in Chains :
          CompletesManual(c) =>
              LET s == Top(c).span IN
              /\ spans'[s].ended = 1
              /\ stack'[c][Len(stack'[c])].err = Top(c).err
              /\ spans'[s].log =
                    IF Top(c).err # NoErr
                       THEN spans[s].log \o <<Top(c).err, "end">>
                       ELSE spans[s].log \o <<"end">>]_vars

(* What holds: the span is ended exactly once however the function         *)
(* completes and the caller receives the function's error; nothing is      *)
(* recorded on the span.                                                   *)
ManualSpanEndsOnceErrorPropagates ==
    [][\A c \in Chains :
          CompletesManual(c) =>
              LET s == Top(c).span IN
              /\ spans'[s].ended = 1
              /\ stack'[c][Len(stack'[c])].err = Top(c).err
              /\ spans'[s].log = spans[s].log \o <<"end">>]_vars

----------------------------------------------------------------------------
(* Properties of the attribute mappers (checked under SpecAttributes).     *)

AttrsOf(out) == {out.attrs[i] : i \in 1..Len(out.attrs)}
TextBearing == {"input_text", "output_text", "refusal"}
TextPositions(list) == {i \in 1..Len(list) : list[i].type \in TextBearing}

(* C21: getAttributesFromMessageContentList emits attributes only for the  *)
(* text-bearing items of the list, each under the item's position in the   *)
(* list (from 0), so that the skipped items leave gaps in the indices.     *)
C21_ContentIndexIsPosition ==
    fOut.fn = "getAttributesFromMessageContentList" =>
        /\ {a.key[2] : a \in AttrsOf(fOut)} =
              {i - 1 : i \in TextPositions(fIn.list)}
        /\ \A i \in TextPositions(fIn.list) :
              ContentAttr(i - 1, "text", fIn.list[i].text) \in AttrsOf(fOut)
        /\ Len(fOut.attrs) = 2 * Cardinality(TextPositions(fIn.list))

C21_Witness ==
    /\ fOut.fn = "getAttributesFromMessageContentList"
    /\ Len(fIn.list) = 4
    /\ fIn.list[1].type = "input_text"
    /\ fIn.list[2].type = "input_image"
    /\ fIn.list[3].type = "input_file"
    /\ fIn.list[4].type = "output_text"
    /\ {a.key[2] : a \in AttrsOf(fOut)} = {0, 3}

(* The json_schema attribute of the tool at position i, parsed back.       *)
ParsedTool(i) ==
    LET a == CHOOSE b \in AttrsOf(fOut) : b.key[2] = i - 1
    IN ParseJSON(a.value)
FunctionPositions(list) == {i \in 1..Len(list) : list[i].type = "function"}

(* C22: for every function tool given to getAttributesFromTools, the       *)
(* emitted json_schema attribute parses back to an object with type        *)
(* "function" and a function object whose name, parameters and strict are  *)
(* the tool's, with a description field if and only if the tool's          *)
(* description is not undefined.                                           *)
C22_ToolSchemaRoundTrip ==
    fOut.fn = "getAttributesFromTools" =>
        \A i \in FunctionPositions(fIn.list) :
            /\ \E b \in AttrsOf(fOut) : b.key[2] = i - 1
            /\ LET parsed == ParsedTool(i)
                   function == GetProp(parsed, "function")
               IN /\ GetProp(parsed, "type") = Str("function")
                  /\ GetProp(function, "name") = fIn.list[i].name
                  /\ GetProp(function, "parameters") = fIn.list[i].parameters
                  /\ GetProp(function, "strict") = fIn.list[i].strict
                  /\ HasProp(function, "description")
                        <=> fIn.list[i].description # Undefined

(* What holds: the description field is there if and only if the tool's    *)
(* description is a non-empty string.                                      *)
ToolSchemaRoundTripTruthyDescription ==
    fOut.fn = "getAttributesFromTools" =>
        \A i \in FunctionPositions(fIn.list) :
            /\ \E b \in AttrsOf(fOut) : b.key[2] = i - 1
            /\ LET parsed == ParsedTool(i)
                   function == GetProp(parsed, "function")
               IN /\ GetProp(parsed, "type") = Str("function")
                  /\ GetProp(function, "name") = fIn.list[i].name
                  /\ GetProp(function, "parameters") = fIn.list[i].parameters
                  /\ GetProp(function, "strict") = fIn.list[i].strict
                  /\ HasProp(function, "description")
                        <=> Truthy(fIn.list[i].description)
                  /\ HasProp(function, "description")
                        => GetProp(function, "description")
                              = fIn.list[i].description

HasAttr(out, name) == \E a \in AttrsOf(out) : a.key = <<name>>
AttrValue(out, name) == (CHOOSE a \in AttrsOf(out) : a.key = <<name>>).value

(* C23: getAttributesFromUsage emits the prompt and the completion count   *)
(* of every usage record whatever their value, 0 included;                 *)
(* getAttributesFromChatCompletionsUsage emits a prompt or completion      *)
(* count only when it is present and greater than 0.                       *)
C23_ZeroCountsKeptOrDropped ==
    /\ (fOut.fn = "getAttributesFromUsage" /\ fIn.usage # Null) =>
          /\ HasAttr(fOut, "llm.token_count.prompt")
          /\ AttrValue(fOut, "llm.token_count.prompt") = fIn.usage.input_tokens
          /\ HasAttr(fOut, "llm.token_count.completion")
          /\ AttrValue(fOut, "llm.token_count.completion")
                = fIn.usage.output_tokens
    /\ (fOut.fn = "getAttributesFromChatCompletionsUsage" /\ fIn.usage # Null) =>
          /\ HasAttr(fOut, "llm.token_count.prompt")
                <=> (fIn.usage.input_tokens # Undefined
                       /\ NumberOf(fIn.usage.input_tokens) > 0)
          /\ HasAttr(fOut, "llm.token_count.completion")
                <=> (fIn.usage.output_tokens # Undefined
                       /\ NumberOf(fIn.usage.output_tokens) > 0)
          /\ \A a \in AttrsOf(fOut) :
                a.value \in {fIn.usage.input_tokens, fIn.usage.output_tokens}

C23_Witness ==
    /\ fOut.fn = "getAttributesFromUsage"
    /\ ~fOut.threw
    /\ fIn.usage.input_tokens = Num("0")
    /\ fIn.usage.output_tokens = Num("0")
    /\ AttrValue(fOut, "llm.token_count.prompt") = Num("0")
    /\ AttrValue(fOut, "llm.token_count.completion") = Num("0")

----------------------------------------------------------------------------
(* Properties of the OpenAI Agents trace processor (checked under          *)
(* SpecAgents, SpecToolCache and SpecHandoff).                             *)

SpanEndHandled(s) == s.event = "spanEnd" /\ s.handled
SpanOf(id) == spanMap[id]

(* C24: whatever the sequence of trace-start, span-start, span-end and     *)
(* trace-end events, the processor ends each span it obtained from the     *)
(* tracer at most once, and never renames it, sets an attribute on it or   *)
(* sets its status after having ended it.                                  *)
C24_SpanEndedOnceAndLeftAlone ==
    \A o \in OtelIds : otel[o].ended <= 1 /\ ~otel[o].afterEnd

(* C25: once the span-end event of a span id has been processed, neither   *)
(* the span map nor the token map holds an entry for that id; once the     *)
(* trace-end event of a trace has been processed, the tool cache holds no  *)
(* entry for that trace.                                                   *)
C25_EndRemovesEntries ==
    /\ SpanEndHandled(aRet) => spanMap[aRet.id] = 0 /\ tokens[aRet.id] = 0
    /\ aRet.event = "traceEnd" => toolCache[aRet.T] = NoTools

(* The part of C25 that holds: the tool cache is emptied on trace-end.     *)
TraceEndClearsToolCache ==
    aRet.event = "traceEnd" => toolCache[aRet.T] = NoTools

(* The parent C26 asks for: the open span under the parent id, else the    *)
(* root span of the trace, else the ambient context (0).                   *)
ExpectedParent(parentId, T) ==
    IF parentId # "none" /\ spanMap[parentId] # 0
          /\ otel[spanMap[parentId]].ended = 0
       THEN spanMap[parentId]
    ELSE IF rootSpans[T] # 0 THEN rootSpans[T]
    ELSE 0

(* C26: the span started on a span-start event has for parent the open     *)
(* span registered under the event's parent id if there is one, else the   *)
(* root span registered for the event's trace, else the ambient context;   *)
(* its parent is never a span that has been ended.                         *)
C26_ParentIsOpenSpanRootOrAmbient ==
    [][(aRet'.event = "spanStart" /\ aRet'.handled) =>
          LET p == otel'[nOtel'].parent
          IN /\ p = ExpectedParent(aRet'.parentId, aRet'.T)
             /\ p # 0 => otel[p].ended = 0]_vars

(* C27: a span-end event whose id is in the span map makes onSpanEnd end   *)
(* the span without raising an exception, whatever its payload.            *)
C27_SpanEndNeverThrows ==
    SpanEndHandled(aRet) => ~aRet.threw /\ otel[SpanOf(aRet.id)].ended > 0

(* The tool name a span-end event looks up: that of a function span, or of *)
(* the function_call item of a response.                                   *)
LookedUp(data) ==
    IF data.type = "function" THEN data.name
    ELSE IF data.type = "response" THEN data.call
    ELSE "none"

EnrichedAsDeclared(s) ==
    otel'[SpanOf(s.id)].toolDescription =
        IF declared'[s.T][LookedUp(s.data)] # "none"
           THEN declared'[s.T][LookedUp(s.data)]
           ELSE otel[SpanOf(s.id)].toolDescription

(* C28: a function span or function_call item of a trace gets a tool       *)
(* description if and only if a response of the same trace, processed      *)
(* since the trace last ended, declared a tool of that name; the           *)
(* description is that of the latest such declaration.                     *)
C28_EnrichedIffDeclaredInTrace ==
    [][(SpanEndHandled(aRet') /\ LookedUp(aRet'.data) # "none") =>
          EnrichedAsDeclared(aRet')]_vars

(* What holds: the same for the names that Object.prototype does not       *)
(* define.                                                                 *)
EnrichedIffDeclaredOwnName ==
    [][(/\ SpanEndHandled(aRet')
        /\ LookedUp(aRet'.data) # "none"
        /\ LookedUp(aRet'.data) \notin ObjectPrototypeNames) =>
          EnrichedAsDeclared(aRet')]_vars

(* The index m with its `removed` earliest-inserted entries taken away.    *)
WithoutEarliest(m, removed) ==
    [fill |-> Max(m.fill - removed, 0),
     entries |-> SubSeq(m.entries, 1 + Max(removed - m.fill, 0),
                        Len(m.entries))]

(* C29: after every span-end event the reverse handoff index holds at most *)
(* MAX_HANDOFFS_IN_FLIGHT entries; recording a handoff beyond the cap      *)
(* removes the entries inserted earliest, and never the one just recorded. *)
C29_HandoffIndexCappedFIFO ==
    [][/\ HandoffSize(reverseHandoffsMap') <= MAX_HANDOFFS_IN_FLIGHT
       /\ (SpanEndHandled(aRet') /\ aRet'.data.type = "handoff") =>
             LET key == <<aRet'.data.to_agent, aRet'.T>>
                 recorded == HandoffSet(reverseHandoffsMap, key,
                                        aRet'.data.from_agent)
                 removed == HandoffSize(recorded)
                               - HandoffSize(reverseHandoffsMap')
             IN /\ HandoffGet(reverseHandoffsMap', key)
                      = aRet'.data.from_agent
                /\ removed = Max(HandoffSize(recorded)
                                    - MAX_HANDOFFS_IN_FLIGHT, 0)
                /\ reverseHandoffsMap' = WithoutEarliest(recorded, removed)]_vars

(* Two handoffs were recorded in an index that was full or one short of    *)
(* its cap, and two of the entries inserted before them were evicted.      *)
C29_Witness ==
    /\ SpanEndHandled(aRet)
    /\ aRet.data.type = "handoff"
    /\ reverseHandoffsMap.fill = MAX_HANDOFFS_IN_FLIGHT - 2
    /\ Len(reverseHandoffsMap.entries) = 2
    /\ HandoffGet(reverseHandoffsMap, <<aRet.data.to_agent, aRet.T>>)
          = aRet.data.from_agent

(* C30: an agent span whose parent-node attribute was set from the reverse *)
(* handoff index removes the entry it used, so that a later agent span of  *)
(* the same name and trace gets no parent node from it.                    *)
C30_ConsumedHandoffIsRemoved ==
    [][(/\ SpanEndHandled(aRet')
        /\ aRet'.data.type = "agent"
        /\ ParentNode(aRet'.data.name, aRet'.T) # "none") =>
          HandoffGet(reverseHandoffsMap', <<aRet'.data.name, aRet'.T>>)
             = "none"]_vars

----------------------------------------------------------------------------
(* Properties of the caller's metadata object (checked under SpecMeta).    *)

(* C38: setGlobalMetadata, setMetadata and withMetadata leave the mapping  *)
(* object passed by the caller as it was: after the call the object has    *)
(* the keys and values it had before.                                      *)
C38_CallerObjectUnchanged ==
    (mRet.fn \in {"setGlobalMetadata", "setMetadata", "withMetadata"}
        /\ ~mRet.threw)
    => mRet.arg = mRet.inp

----------------------------------------------------------------------------
(* Properties of instrument() (checked under SpecWrap).                    *)

(* C39: instrument(fn) and instrument(name)(fn) obtain the tracer when the *)
(* function is wrapped: before configure has succeeded the wrapping throws *)
(* "Atla Insights must be configured before use." and yields no wrapper;   *)
(* so no wrapper exists that was made before configure succeeded.          *)
C39_WrappingNeedsConfigure ==
    [][/\ (wRet'.fn = "instrumentFunction" /\ ~mConfigured) =>
             /\ wRet'.threw
             /\ wRet'.error = ConfigureError
             /\ wrappers'[wRet'.w].stage # "wrapper"
       /\ \A w \in WrapperIds :
             wrappers'[w].stage = "wrapper" => wrappers'[w].configured]_vars

(* A wrapping threw before configure, and configure has succeeded since.   *)
C39_Witness ==
    /\ wRet.fn = "instrumentFunction"
    /\ wRet.threw
    /\ wrappers[wRet.w].stage = "decorator"
    /\ mConfigured

----------------------------------------------------------------------------
(* Properties of the response-output mapper (checked under SpecOutput).    *)

OfType(list, types) == {i \in 1..Len(list) : list[i].type \in types}
Before(list, p, types) == Cardinality({i \in OfType(list, types) : i < p})
ToolCallTypes == {"function_call", "custom_tool_call"}
KeysOf2(out) == {out.attrs[i].key : i \in 1..Len(out.attrs)}

(* C34: getAttributesFromResponseOutput gives the message items the        *)
(* indices 0, 1, 2, ... in list order; a function_call item is attached to *)
(* the message index current at its place, that is the number of message   *)
(* items before it, and is numbered tool_calls.k where k is the number of  *)
(* function_call items before it.                                          *)
C34_OutputIndices ==
    fOut.fn = "getAttributesFromResponseOutput" =>
        /\ \A p \in OfType(fIn.list, {"message"}) :
              OutputContent(Before(fIn.list, p, {"message"}), "text",
                            fIn.list[p].text) \in AttrsOf(fOut)
        /\ \A p \in OfType(fIn.list, {"function_call"}) :
              OutputToolCall(Before(fIn.list, p, {"message"}),
                             Before(fIn.list, p, {"function_call"}),
                             "tool_call.function.name", fIn.list[p].name)
                 \in AttrsOf(fOut)
        /\ {k[2] : k \in {x \in KeysOf2(fOut) : x[3] = "message.contents"}}
              = 0..(Cardinality(OfType(fIn.list, {"message"})) - 1)
        /\ Cardinality({i \in 1..Len(fOut.attrs) :
                           /\ fOut.attrs[i].key[3] = "message.tool_calls"
                           /\ fOut.attrs[i].value \in {"get_weather", "search"}})
              = Cardinality(OfType(fIn.list, {"function_call"}))

(* Two messages with a function call between them and one after them.      *)
C34_Witness ==
    /\ fOut.fn = "getAttributesFromResponseOutput"
    /\ Len(fIn.list) = 4
    /\ fIn.list[1].type = "message"
    /\ fIn.list[2].type = "function_call"
    /\ fIn.list[3].type = "message"
    /\ fIn.list[4].type = "function_call"
    /\ OutputToolCall(1, 0, "tool_call.function.name", fIn.list[2].name)
          \in AttrsOf(fOut)
    /\ OutputToolCall(2, 1, "tool_call.function.name", fIn.list[4].name)
          \in AttrsOf(fOut)

(* The positions in the output of the attributes under tool_calls.         *)
ToolCallWrites == {i \in 1..Len(fOut.attrs) :
                      fOut.attrs[i].key[3] = "message.tool_calls"}

(* C37: no two output items write to the same slot: no message index       *)
(* carries both the content of a message item and a tool call, and no      *)
(* tool_calls sub-index of a message index is written by two tool-call     *)
(* items.                                                                  *)
C37_OutputSlotsDisjoint ==
    fOut.fn = "getAttributesFromResponseOutput" =>
        /\ \A k1, k2 \in KeysOf2(fOut) :
              (k1[3] = "message.contents" /\ k2[3] = "message.tool_calls")
                 => k1[2] # k2[2]
        /\ \A i, j \in ToolCallWrites :
              fOut.attrs[i].key = fOut.attrs[j].key => i = j

----------------------------------------------------------------------------
(* Further properties of the OpenAI Agents trace processor.                *)

(* C31: the trace-end event of a started trace sets the status of the      *)
(* trace's root span to OK, ends that span and leaves no tool-cache entry  *)
(* for the trace; for a trace that was never started it ends no span and   *)
(* raises nothing.                                                         *)
C31_TraceEndClosesRoot ==
    [][aRet'.event = "traceEnd" =>
          /\ ~aRet'.threw
          /\ toolCache'[aRet'.T] = NoTools
          /\ IF rootSpans[aRet'.T] # 0
                THEN /\ otel'[rootSpans[aRet'.T]].status = "ok"
                     /\ otel'[rootSpans[aRet'.T]].ended
                           = otel[rootSpans[aRet'.T]].ended + 1
                     /\ \A o \in OtelIds \ {rootSpans[aRet'.T]} :
                           otel'[o] = otel[o]
                ELSE otel' = otel]_vars

(* The trace ended after one of its spans had started and a response had   *)
(* been cached for it.                                                     *)
C31_Witness ==
    /\ aRet.event = "traceEnd"
    /\ aRet.handled
    /\ otel[rootSpans[aRet.T]].status = "ok"
    /\ otel[rootSpans[aRet.T]].ended = 1
    /\ \E id \in AgentSpanIds :
          spanMap[id] # 0 /\ otel[spanMap[id]].parent = rootSpans[aRet.T]
    /\ toolCache[aRet.T] = NoTools

(* C32: a span-end event for an id that has no entry in the span map sets  *)
(* no attribute, ends no span, changes none of the maps and raises no      *)
(* exception.                                                              *)
C32_UnknownSpanEndIsNoOp ==
    [][(aRet'.event = "spanEnd" /\ spanMap[aRet'.id] = 0) =>
          /\ ~aRet'.threw
          /\ UNCHANGED <<otel, rootSpans, spanMap, tokens, toolCache,
                         reverseHandoffsMap>>]_vars

(* A response span-end for an id without entry, while other spans exist.   *)
C32_Witness ==
    /\ aRet.event = "spanEnd"
    /\ ~aRet.handled
    /\ ~aRet.threw
    /\ aRet.data.type = "response"
    /\ spanMap[aRet.id] = 0
    /\ nOtel > 0

(* C35: the tool description attribute is set from the tool cache only     *)
(* when the cached tool has a description; it is never the empty string.   *)
C35_NoEmptyDescription ==
    \A o \in OtelIds : otel[o].description # ""

----------------------------------------------------------------------------
(* Further properties of instrumented calls and of marking.                *)

Ends(t) == spans[t].ended = 0 /\ spans'[t].ended > 0
OpenChildren(t) ==
    {s \in SpanIds : spans[s].started /\ spans[s].parent = t
                        /\ spans[s].ended = 0}

(* C33: an instrumented call made inside another one has a span that is a  *)
(* descendant of the outer span and that is ended no later than the outer  *)
(* span: when a span ends, every span started under it has ended.          *)
C33_InnerSpanEndsBeforeOuter ==
    [][\A t \in SpanIds : Ends(t) => OpenChildren(t) = {}]_vars

(* C36: markSuccess and markFailure never set the outcome attribute on a   *)
(* root span that has been ended: a mark reaches a root span that is still *)
(* open, or fails.                                                         *)
C36_MarkReachesOpenRootOrFails ==
    [][op' \in {MarkStep(SUCCESS_SUCCESS), MarkStep(SUCCESS_FAILURE)} =>
          LET context == getAtlaContext(active)
          IN (context.has /\ context.rootSpan # 0)
                => spans[context.rootSpan].ended = 0]_vars

====
